---- MODULE Spec2Model ----
(***************************************************************************)
(* Itinerary backend: the itinerary-generation pipeline of                 *)
(* agents/itinerary_generator_agent.py (relevance scoring, prompt          *)
(* composition, response repair, itinerary assembly, orchestration), the   *)
(* events store of routers/events.py, the /itinerary handler of            *)
(* routers/itinerary.py and the weather agent of agents/weather_agent.py.  *)
(*                                                                         *)
(* Text is a sequence of one-character strings.  Scores are counted in     *)
(* halves (1.0 is 2), money in whole currency units.                       *)
(***************************************************************************)
EXTENDS Integers, Sequences, FiniteSets, TLC

VARIABLES
    rel_pc, rel_event, rel_interests, rel_forecast, rel_result,
    asm_pc, asm_data, asm_forecast, asm_result,
    rep_pc, rep_text, rep_result,
    gen_pc, gen_weather, gen_trip, gen_attempt, gen_calls, gen_waits,
    gen_failures, gen_response, gen_parses, gen_outcome,
    prm_seed, prm_prev, prm_last,
    ev_db, ev_lock, ev_req,
    rt_pc, rt_forecast, rt_transport, rt_stages, rt_response,
    wx_pc, wx_calls, wx_waits, wx_failures, wx_steps, wx_response,
    wx_forecast, wx_result

relVars == <<rel_pc, rel_event, rel_interests, rel_forecast, rel_result>>

asmVars == <<asm_pc, asm_data, asm_forecast, asm_result>>

repVars == <<rep_pc, rep_text, rep_result>>

genVars == <<gen_pc, gen_weather, gen_trip, gen_attempt, gen_calls, gen_waits,
             gen_failures, gen_response, gen_parses, gen_outcome>>

prmVars == <<prm_seed, prm_prev, prm_last>>

evVars == <<ev_db, ev_lock, ev_req>>

rtVars == <<rt_pc, rt_forecast, rt_transport, rt_stages, rt_response>>

wxVars == <<wx_pc, wx_calls, wx_waits, wx_failures, wx_steps, wx_response,
            wx_forecast, wx_result>>

vars == <<rel_pc, rel_event, rel_interests, rel_forecast, rel_result,
          asm_pc, asm_data, asm_forecast, asm_result,
          rep_pc, rep_text, rep_result,
          gen_pc, gen_weather, gen_trip, gen_attempt, gen_calls, gen_waits,
          gen_failures, gen_response, gen_parses, gen_outcome,
          prm_seed, prm_prev, prm_last,
          ev_db, ev_lock, ev_req,
          rt_pc, rt_forecast, rt_transport, rt_stages, rt_response,
          wx_pc, wx_calls, wx_waits, wx_failures, wx_steps, wx_response,
          wx_forecast, wx_result>>

(***************************************************************************)
(* Bounds of the model.                                                    *)
(***************************************************************************)
MaxInterests == 2
MaxForecast == 2
MaxDays == 2
MaxPieces == 4
MaxSeed == 2
MaxEvents == 6

(***************************************************************************)
(* Text helpers: str.lower() and the `in` substring test.                  *)
(***************************************************************************)
LowerChar(c) ==
    CASE c = "A" -> "a"
      [] c = "C" -> "c"
      [] c = "I" -> "i"
      [] c = "L" -> "l"
      [] c = "M" -> "m"
      [] c = "O" -> "o"
      [] c = "R" -> "r"
      [] c = "S" -> "s"
      [] c = "T" -> "t"
      [] OTHER -> c

Lower(s) == [i \in 1..Len(s) |-> LowerChar(s[i])]

Contains(needle, hay) ==
    \E i \in 0..(Len(hay) - Len(needle)) :
        SubSeq(hay, i + 1, i + Len(needle)) = needle

SeqsUpTo(S, n) == UNION {[1..k -> S] : k \in 0..n}

(***************************************************************************)
(* float(str): the decimal digit strings convert, anything else raises     *)
(* ValueError.                                                             *)
(***************************************************************************)
Digits == <<"0", "1", "2", "3", "4", "5", "6", "7", "8", "9">>

IsDigit(c) == \E d \in 1..10 : Digits[d] = c

DigitVal(c) == (CHOOSE d \in 1..10 : Digits[d] = c) - 1

RECURSIVE DigitsVal(_)
DigitsVal(s) ==
    IF s = <<>> THEN 0
    ELSE 10 * DigitsVal(SubSeq(s, 1, Len(s) - 1)) + DigitVal(s[Len(s)])

FloatOfStr(s) ==
    IF s # <<>> /\ \A i \in 1..Len(s) : IsDigit(s[i])
    THEN [ok |-> TRUE, n |-> DigitsVal(s)]
    ELSE [ok |-> FALSE, n |-> 0]

(***************************************************************************)
(* Relevance Scorer: _calculate_event_relevance.                           *)
(***************************************************************************)
BaseScore == 2
MatchBonus == 2
WeatherPenalty == 1
PrecipitationLimit == 50

Outdoor == <<"o", "u", "t", "d", "o", "o", "r">>
Rain == <<"r", "a", "i", "n">>

InterestMatchesCaseSensitive(activity, event) ==
    Contains(activity, event.category)

InterestMatches(activity, event) ==
    Contains(Lower(activity), Lower(event.category))

RECURSIVE InterestScore(_, _)
InterestScore(event, user_activities) ==
    IF user_activities = <<>> THEN 0
    ELSE (IF InterestMatches(Head(user_activities), event) THEN MatchBonus ELSE 0)
         + InterestScore(event, Tail(user_activities))

\* Penalties that do not look at the description of the event.
DayPenaltyAnyEvent(event, weather) ==
    LET p == FloatOfStr(weather.precipitation_chance)
        r == IF Contains(Rain, Lower(weather.condition)) THEN WeatherPenalty ELSE 0
    IN  IF ~p.ok THEN [ok |-> FALSE, n |-> 0]
        ELSE [ok |-> TRUE,
              n |-> r + (IF p.n > PrecipitationLimit THEN WeatherPenalty ELSE 0)]

\* The penalties of one forecast day; float() of a non-numeric
\* precipitation_chance raises.
DayPenaltyElif(event, weather) ==
    IF ~Contains(Outdoor, Lower(event.description))
    THEN [ok |-> TRUE, n |-> 0]
    ELSE IF Contains(Rain, Lower(weather.condition))
         THEN [ok |-> TRUE, n |-> WeatherPenalty]
         ELSE LET p == FloatOfStr(weather.precipitation_chance)
              IN  IF ~p.ok THEN [ok |-> FALSE, n |-> 0]
                  ELSE [ok |-> TRUE,
                        n |-> IF p.n > PrecipitationLimit THEN WeatherPenalty ELSE 0]

DayPenalty(event, weather) ==
    IF ~Contains(Outdoor, Lower(event.description))
    THEN [ok |-> TRUE, n |-> 0]
    ELSE LET p == FloatOfStr(weather.precipitation_chance)
             r == IF Contains(Rain, Lower(weather.condition))
                  THEN WeatherPenalty ELSE 0
         IN  IF ~p.ok THEN [ok |-> FALSE, n |-> 0]
             ELSE [ok |-> TRUE,
                   n |-> r + (IF p.n > PrecipitationLimit THEN WeatherPenalty ELSE 0)]

\* A loop without the break: every forecast day of the event's date counts.
RECURSIVE ForecastPenaltyNoBreak(_, _)
ForecastPenaltyNoBreak(event, weather_forecast) ==
    IF weather_forecast = <<>> THEN [ok |-> TRUE, n |-> 0]
    ELSE LET rest == ForecastPenaltyNoBreak(event, Tail(weather_forecast))
             here == IF Head(weather_forecast).date = event.date
                     THEN DayPenalty(event, Head(weather_forecast))
                     ELSE [ok |-> TRUE, n |-> 0]
         IN  [ok |-> here.ok /\ rest.ok, n |-> here.n + rest.n]

\* The loop over the forecast: the first day of the event's date, then break.
RECURSIVE ForecastPenalty(_, _)
ForecastPenalty(event, weather_forecast) ==
    IF weather_forecast = <<>> THEN [ok |-> TRUE, n |-> 0]
    ELSE IF Head(weather_forecast).date = event.date
         THEN DayPenalty(event, Head(weather_forecast))
         ELSE ForecastPenalty(event, Tail(weather_forecast))

\* [ok, score]: ok is FALSE when the call raises ValueError.
CalculateEventRelevance(event, user_activities, weather_forecast) ==
    LET pen == ForecastPenalty(event, weather_forecast)
    IN  IF ~pen.ok THEN [ok |-> FALSE, score |-> 0]
        ELSE [ok |-> TRUE,
              score |-> BaseScore + InterestScore(event, user_activities) - pen.n]

(***************************************************************************)
(* Inputs of the scorer.                                                   *)
(***************************************************************************)
Date1 == "2025-02-01"
Date2 == "2025-02-02"

RelCategories ==
    { <<"A", "r", "t", "s">>, <<"M", "a", "r", "t", "i", "a", "l", " ", "A", "r", "t", "s">> }

RelDescriptions ==
    { <<"O", "u", "t", "d", "o", "o", "r", " ", "s", "h", "o", "w">>,
      <<"I", "n", "d", "o", "o", "r", " ", "s", "h", "o", "w">> }

RelInterests ==
    { <<"a", "r", "t">>, <<"M", "A", "R">>, <<"f", "o", "o", "d">> }

RelConditions ==
    { <<"L", "i", "g", "h", "t", " ", "R", "a", "i", "n">>, <<"S", "u", "n", "n", "y">> }

RelPrecipitations == { <<"5", "0">>, <<"5", "1">>, <<"N", "/", "A">> }

RelEvents ==
    [name : {"Show"}, date : {Date1}, venue : {"Hall"},
     category : RelCategories, description : RelDescriptions, price_range : {"$10"}]

RelWeatherDays ==
    [date : {Date1, Date2}, temperature_celsius : {"20"}, condition : RelConditions,
     precipitation_chance : RelPrecipitations, humidity : {"40"}]

NoScore == [ok |-> FALSE, score |-> 0]

RelInit ==
    /\ rel_pc = "input"
    /\ rel_event \in RelEvents
    /\ rel_interests \in SeqsUpTo(RelInterests, MaxInterests)
    /\ rel_forecast \in SeqsUpTo(RelWeatherDays, MaxForecast)
    /\ rel_result = NoScore

RelIdle ==
    /\ rel_pc = "idle"
    /\ rel_event = CHOOSE e \in RelEvents : TRUE
    /\ rel_interests = <<>>
    /\ rel_forecast = <<>>
    /\ rel_result = NoScore

Score ==
    /\ rel_pc = "input"
    /\ rel_result' = CalculateEventRelevance(rel_event, rel_interests, rel_forecast)
    /\ rel_pc' = IF rel_result'.ok THEN "scored" ELSE "raised"
    /\ UNCHANGED <<rel_event, rel_interests, rel_forecast>>
    /\ UNCHANGED <<asmVars, repVars, genVars, prmVars, evVars, rtVars,
                   wxVars>>

RelNext == Score

(***************************************************************************)
(* The repaired data: JSON values as tagged records.  A key that the       *)
(* object does not hold has the tag "absent"; "other" is a value of a      *)
(* JSON type the code does not expect at that place.                       *)
(***************************************************************************)
\* Values read as text.
Absent == [t |-> "absent", s |-> "", n |-> 0]
JNull == [t |-> "null", s |-> "", n |-> 0]
JStr(x) == [t |-> "str", s |-> x, n |-> 0]
JNum(x) == [t |-> "num", s |-> "", n |-> x]

\* Values read as numbers: a JSON number, or a JSON string given by its characters.
NAbsent == [t |-> "absent", n |-> 0, c |-> <<>>]
NNull == [t |-> "null", n |-> 0, c |-> <<>>]
NNum(x) == [t |-> "num", n |-> x, c |-> <<>>]
NText(chars) == [t |-> "str", n |-> 0, c |-> chars]

Has(value) == value.t # "absent"

\* str(value)
PyStr(value) ==
    CASE value.t = "str" -> value.s
      [] value.t = "num" -> ToString(value.n)
      [] OTHER -> "None"

\* Results of a step: ok with a value, or the exception raised.
Ok(v) == [ok |-> TRUE, kind |-> "", val |-> v]
Raise(kind) == [ok |-> FALSE, kind |-> kind, val |-> <<>>]

\* float(value), in units of `scale` per 1.0
PyFloat(value, scale) ==
    CASE value.t = "num" -> Ok(value.n)
      [] value.t = "str" ->
            IF FloatOfStr(value.c).ok THEN Ok(FloatOfStr(value.c).n * scale)
            ELSE Raise("ValueError")
      [] OTHER -> Raise("TypeError")

(***************************************************************************)
(* _validate_itinerary_data                                                *)
(***************************************************************************)
RequiredFields == <<"trip_summary", "daily_itineraries", "recommendations">>
RequiredDayFields == <<"date", "activities", "meals", "transport", "accommodation">>

\* A report that stops at the first missing field.
MissingOfFirst(obj, required) ==
    LET absent == SelectSeq(required, LAMBDA f : ~Has(obj[f]))
    IN  IF absent = <<>> THEN <<>> ELSE <<Head(absent)>>

\* [field for field in required if field not in obj], in the order of `required`
RECURSIVE MissingOf(_, _)
MissingOf(obj, required) ==
    IF required = <<>> THEN <<>>
    ELSE (IF Has(obj[Head(required)]) THEN <<>> ELSE <<Head(required)>>)
         \o MissingOf(obj, Tail(required))

NoError == [kind |-> "", message |-> "", step |-> "", fields |-> <<>>]

Error(kind, message, step, fields) ==
    [kind |-> kind, message |-> message, step |-> step, fields |-> fields]

\* A validation that looks at the first day only.
ValidateDaysFirstOnly(days) ==
    IF days = <<>> THEN NoError
    ELSE IF Head(days).t # "obj"
         THEN Error("ValueError", "Each day in daily_itineraries must be a dictionary",
                    "validate", <<>>)
         ELSE IF MissingOf(Head(days), RequiredDayFields) # <<>>
              THEN Error("ValueError", "Missing required fields in day data", "validate",
                         MissingOf(Head(days), RequiredDayFields))
              ELSE NoError

\* The loop over the days: the first day that is no object, or lacks a field, raises.
RECURSIVE ValidateDays(_)
ValidateDays(days) ==
    IF days = <<>> THEN NoError
    ELSE IF Head(days).t # "obj"
         THEN Error("ValueError", "Each day in daily_itineraries must be a dictionary",
                    "validate", <<>>)
         ELSE IF MissingOf(Head(days), RequiredDayFields) # <<>>
              THEN Error("ValueError", "Missing required fields in day data", "validate",
                         MissingOf(Head(days), RequiredDayFields))
              ELSE ValidateDays(Tail(days))

ValidateItineraryData(data) ==
    IF MissingOf(data, RequiredFields) # <<>>
    THEN Error("ValueError", "Missing required fields in itinerary data", "validate",
               MissingOf(data, RequiredFields))
    ELSE IF data.daily_itineraries.t # "list"
         THEN Error("ValueError", "daily_itineraries must be a list", "validate", <<>>)
         ELSE IF data.daily_itineraries.days = <<>>
              THEN Error("ValueError", "daily_itineraries cannot be empty", "validate", <<>>)
              ELSE ValidateDays(data.daily_itineraries.days)

(***************************************************************************)
(* _parse_itinerary_response, per day                                      *)
(***************************************************************************)
\* (i) the forecast record of the day's date, or the placeholder
RECURSIVE FindWeather(_, _)
FindWeather(weather_forecast, day_date) ==
    IF weather_forecast = <<>> THEN <<>>
    ELSE IF day_date.t = "str" /\ Head(weather_forecast).date = day_date.s
         THEN <<Head(weather_forecast)>>
         ELSE FindWeather(Tail(weather_forecast), day_date)

DefaultWeather(day_date) ==
    [date |-> day_date, temperature_celsius |-> "0", condition |-> "Unknown",
     precipitation_chance |-> "0", humidity |-> "0"]

\* A lookup without the default: the day fails when no record has its date.
StepWeatherStrict(day, weather_forecast) ==
    LET found == FindWeather(weather_forecast, day.date)
    IN  IF found # <<>> THEN Ok(found[1]) ELSE Raise("KeyError")

\* A lookup that prefers the weather object of the response to the forecast.
StepWeatherFromResponse(day, weather_forecast) ==
    LET found == FindWeather(weather_forecast, day.date)
    IN  IF day.date.t = "str" /\ day.weather.t = "obj"
        THEN Ok([DefaultWeather(day.date.s) EXCEPT !.condition = day.weather.condition])
        ELSE IF found # <<>> THEN Ok(found[1])
             ELSE IF day.date.t = "str" THEN Ok(DefaultWeather(day.date.s))
                  ELSE Raise("ValidationError")

\* WeatherInfo(date=day_date, ...) validates date as a string.
StepWeather(day, weather_forecast) ==
    LET found == FindWeather(weather_forecast, day.date)
    IN  IF found # <<>> THEN Ok(found[1])
        ELSE IF day.date.t = "str" THEN Ok(DefaultWeather(day.date.s))
             ELSE Raise("ValidationError")

\* (ii) the route stops
DefaultLatitude == 488566
DefaultLongitude == 23522
CoordScale == 10000

DefaultStop ==
    [latitude |-> DefaultLatitude, longitude |-> DefaultLongitude,
     stop_name |-> "Default Location"]

\* stop.get(...) on a value that is no object raises AttributeError.
RouteStop(stop) ==
    IF stop.t # "obj" THEN Raise("AttributeError")
    ELSE LET lat == IF Has(stop.latitude) THEN PyFloat(stop.latitude, CoordScale)
                    ELSE Ok(DefaultLatitude)
             lon == IF Has(stop.longitude) THEN PyFloat(stop.longitude, CoordScale)
                    ELSE Ok(DefaultLongitude)
         IN  IF ~lat.ok THEN Raise(lat.kind)
             ELSE IF ~lon.ok THEN Raise(lon.kind)
             ELSE Ok([latitude |-> lat.val, longitude |-> lon.val,
                      stop_name |-> IF Has(stop.stop_name) THEN PyStr(stop.stop_name)
                                    ELSE "Unknown Stop"])

RECURSIVE RouteStops(_)
RouteStops(stops) ==
    IF stops = <<>> THEN Ok(<<>>)
    ELSE LET first == RouteStop(Head(stops))
         IN  IF ~first.ok THEN Raise(first.kind)
             ELSE LET rest == RouteStops(Tail(stops))
                  IN  IF ~rest.ok THEN Raise(rest.kind)
                      ELSE Ok(<<first.val>> \o rest.val)

\* `if not route_data`: no key, null or an empty list; "other" is a value that
\* is true and no list of stops.
StepRoute(day) ==
    LET route_data == day.daily_route
    IN  IF route_data.t \in {"absent", "null"}
           \/ (route_data.t = "list" /\ route_data.stops = <<>>)
        THEN Ok(<<DefaultStop>>)
        ELSE IF route_data.t # "list" THEN Raise("AttributeError")
             ELSE RouteStops(route_data.stops)

\* (iii) Activity(**act), Meal(**meal), Transport(**trans), LocalEvent(**event):
\* every required key holds a string, and so does every other key given.
ModelOf(entry, required) ==
    IF entry.t # "obj" THEN Raise("TypeError")
    ELSE IF \/ \E i \in 1..Len(required) : entry.v[required[i]].t # "str"
            \/ \E k \in DOMAIN entry.v : Has(entry.v[k]) /\ entry.v[k].t # "str"
         THEN Raise("ValidationError")
         ELSE Ok([k \in DOMAIN entry.v |->
                     IF entry.v[k].t = "str" THEN entry.v[k].s ELSE ""])

RECURSIVE ModelsOf(_, _)
ModelsOf(items, required) ==
    IF items = <<>> THEN Ok(<<>>)
    ELSE LET first == ModelOf(Head(items), required)
         IN  IF ~first.ok THEN Raise(first.kind)
             ELSE LET rest == ModelsOf(Tail(items), required)
                  IN  IF ~rest.ok THEN Raise(rest.kind)
                      ELSE Ok(<<first.val>> \o rest.val)

\* iterating a value that is no list raises TypeError
StepList(field, required, may_be_absent) ==
    IF field.t = "absent" /\ may_be_absent THEN Ok(<<>>)
    ELSE IF field.t # "list" THEN Raise("TypeError")
         ELSE ModelsOf(field.items, required)

ActivityFields == <<"time", "description">>
MealFields == <<"type", "suggestion">>
TransportFields == <<"time", "description">>
LocalEventFields == <<"name", "date", "venue", "category">>

\* (iv) the accommodation record
DefaultAccommodation ==
    [name |-> "Default Hotel", address |-> "City Center",
     details |-> "Standard Accommodation"]

\* Accommodation(**accommodation_data): validate_string_fields raises on an
\* empty string (it reads __fields_set__ of the class), and the except branch
\* of the caller then takes Accommodation().
AccommodationModel(accommodation_data) ==
    IF \E k \in DOMAIN accommodation_data : accommodation_data[k] = ""
    THEN DefaultAccommodation
    ELSE accommodation_data

StepAccommodation(day) ==
    LET given == IF day.accommodation.t = "obj" THEN day.accommodation.v
                 ELSE [k \in DOMAIN DefaultAccommodation |-> Absent]
        accommodation_data ==
            [k \in DOMAIN DefaultAccommodation |->
                IF Has(given[k]) THEN PyStr(given[k]) ELSE DefaultAccommodation[k]]
    IN  Ok(AccommodationModel(accommodation_data))

\* (v) EstimatedCosts(**day_data.get("estimated_costs", {})): a float field
\* takes a number or a numeric string; a missing one is 0.0.
CostFields == <<"activities", "meals", "transport", "accommodation">>

CostOf(value) ==
    CASE value.t = "absent" -> Ok(0)
      [] value.t = "num" -> Ok(value.n)
      [] value.t = "str" ->
            IF FloatOfStr(value.c).ok THEN Ok(FloatOfStr(value.c).n)
            ELSE Raise("ValidationError")
      [] OTHER -> Raise("ValidationError")

StepCosts(day) ==
    LET ec == day.estimated_costs
    IN  IF ec.t = "absent" THEN Ok([k \in DOMAIN ec.v |-> 0])
        ELSE IF ec.t # "obj" THEN Raise("TypeError")
             ELSE IF \E k \in DOMAIN ec.v : ~CostOf(ec.v[k]).ok
                  THEN Raise("ValidationError")
                  ELSE Ok([k \in DOMAIN ec.v |-> CostOf(ec.v[k]).val])

\* (vi) WeatherSummary(**day_data.get("weather_summary", {both "No data"}))
NoData == [description |-> "No data", recommendations |-> "No data"]

StepSummary(day) ==
    LET ws == day.weather_summary
    IN  IF ws.t = "absent" THEN Ok(NoData)
        ELSE IF ws.t # "obj" THEN Raise("TypeError")
             ELSE IF \E k \in DOMAIN ws.v : ws.v[k].t # "str"
                  THEN Raise("ValidationError")
                  ELSE Ok([k \in DOMAIN ws.v |-> ws.v[k].s])

\* One pass of the loop body: the steps in the order of the code, the first
\* exception ends it.
Steps(day, weather_forecast) ==
    << [step |-> "weather", r |-> StepWeather(day, weather_forecast)],
       [step |-> "daily_route", r |-> StepRoute(day)],
       [step |-> "activities", r |-> StepList(day.activities, ActivityFields, FALSE)],
       [step |-> "meals", r |-> StepList(day.meals, MealFields, TRUE)],
       [step |-> "transport", r |-> StepList(day.transport, TransportFields, TRUE)],
       [step |-> "accommodation", r |-> StepAccommodation(day)],
       [step |-> "estimated_costs", r |-> StepCosts(day)],
       [step |-> "weather_summary", r |-> StepSummary(day)],
       [step |-> "local_events", r |-> StepList(day.local_events, LocalEventFields, TRUE)] >>

FirstFailure(steps) ==
    IF \E i \in 1..Len(steps) : ~steps[i].r.ok
    THEN LET i == CHOOSE i \in 1..Len(steps) :
                      /\ ~steps[i].r.ok
                      /\ \A j \in 1..(i - 1) : steps[j].r.ok
         IN  Error(steps[i].r.kind, "", steps[i].step, <<>>)
    ELSE NoError

DailyItineraryOf(day, weather_forecast) ==
    LET steps == Steps(day, weather_forecast)
    IN  [date |-> day.date.s,
         weather |-> steps[1].r.val,
         daily_route |-> steps[2].r.val,
         activities |-> steps[3].r.val,
         meals |-> steps[4].r.val,
         transport |-> steps[5].r.val,
         accommodation |-> steps[6].r.val,
         estimated_costs |-> steps[7].r.val,
         weather_summary |-> steps[8].r.val,
         local_events |-> steps[9].r.val]

\* daily_itineraries.append(daily_itinerary) for every entry, in list order
BuiltDays(days, weather_forecast) ==
    [i \in 1..Len(days) |-> DailyItineraryOf(days[i], weather_forecast)]

\* The loop over data["daily_itineraries"]: the error of the first day that
\* fails, or NoError.
RECURSIVE DaysFailure(_, _)
DaysFailure(days, weather_forecast) ==
    IF days = <<>> THEN NoError
    ELSE IF FirstFailure(Steps(Head(days), weather_forecast)) # NoError
         THEN FirstFailure(Steps(Head(days), weather_forecast))
         ELSE DaysFailure(Tail(days), weather_forecast)

(***************************************************************************)
(* _parse_itinerary_response, after the days                               *)
(***************************************************************************)
RECURSIVE SumSeq(_)
SumSeq(s) == IF s = <<>> THEN 0 ELSE Head(s) + SumSeq(Tail(s))

DayCost(estimated_costs) ==
    SumSeq([i \in 1..Len(CostFields) |-> estimated_costs[CostFields[i]]])

\* A total that leaves the accommodation cost out.
TotalCostWithoutAccommodation(daily_itineraries) ==
    SumSeq([i \in 1..Len(daily_itineraries) |->
               DayCost(daily_itineraries[i].estimated_costs)
               - daily_itineraries[i].estimated_costs.accommodation])

TotalCost(daily_itineraries) ==
    SumSeq([i \in 1..Len(daily_itineraries) |->
               DayCost(daily_itineraries[i].estimated_costs)])

EmergencyContacts == [police |-> "112", ambulance |-> "112", tourist_helpline |-> "1363"]
UsefulPhrases == [hello |-> "Hello", thank_you |-> "Thank you", help |-> "Help"]

\* TripSummary(**data["trip_summary"]) and the ItineraryResponse constructor
TailFailure(data) ==
    IF data.trip_summary.t # "obj" THEN Error("TypeError", "", "trip_summary", <<>>)
    ELSE IF data.trip_summary.missing # {}
         THEN Error("ValidationError", "", "trip_summary", <<>>)
         ELSE IF data.recommendations.t # "list"
              THEN Error("ValidationError", "", "recommendations", <<>>)
              ELSE NoError

NoItinerary == [daily_itineraries |-> <<>>]

\* An assembly that keeps the days built before the first day that fails.
AssembleItineraryPartial(data, weather_forecast) ==
    LET invalid == ValidateItineraryData(data)
    IN  IF invalid # NoError THEN [error |-> invalid, itinerary |-> NoItinerary]
        ELSE LET days == data.daily_itineraries.days
                 good == {k \in 0..Len(days) :
                            \A j \in 1..k : FirstFailure(Steps(days[j], weather_forecast)) = NoError}
                 built == CHOOSE k \in good : \A m \in good : m <= k
                 daily_itineraries == BuiltDays(SubSeq(days, 1, built), weather_forecast)
             IN  IF built = 0
                 THEN [error |-> DaysFailure(days, weather_forecast), itinerary |-> NoItinerary]
                 ELSE IF TailFailure(data) # NoError
                      THEN [error |-> TailFailure(data), itinerary |-> NoItinerary]
                      ELSE [error |-> NoError,
                            itinerary |->
                              [trip_summary |-> data.trip_summary,
                               daily_itineraries |-> daily_itineraries,
                               total_cost |-> TotalCost(daily_itineraries),
                               recommendations |-> data.recommendations.items,
                               weather_forecast |-> weather_forecast,
                               transport_options |-> <<>>,
                               emergency_contacts |-> EmergencyContacts,
                               useful_phrases |-> UsefulPhrases]]

\* Data after json.loads -> [error, itinerary]
AssembleItinerary(data, weather_forecast) ==
    LET invalid == ValidateItineraryData(data)
    IN  IF invalid # NoError THEN [error |-> invalid, itinerary |-> NoItinerary]
        ELSE LET days == data.daily_itineraries.days
                 failed == DaysFailure(days, weather_forecast)
             IN  IF failed # NoError THEN [error |-> failed, itinerary |-> NoItinerary]
                 ELSE IF TailFailure(data) # NoError
                      THEN [error |-> TailFailure(data), itinerary |-> NoItinerary]
                      ELSE LET daily_itineraries == BuiltDays(days, weather_forecast)
                           IN  [error |-> NoError,
                                itinerary |->
                                  [trip_summary |-> data.trip_summary,
                                   daily_itineraries |-> daily_itineraries,
                                   total_cost |-> TotalCost(daily_itineraries),
                                   recommendations |-> data.recommendations.items,
                                   weather_forecast |-> weather_forecast,
                                   transport_options |-> <<>>,
                                   emergency_contacts |-> EmergencyContacts,
                                   useful_phrases |-> UsefulPhrases]]

(***************************************************************************)
(* Inputs of the assembler: the authoritative forecast and the repaired    *)
(* response.  A day of the response is a complete day, or a complete day   *)
(* with one field changed.                                                 *)
(***************************************************************************)
Date3 == "2025-02-09"

WeatherOf(d, condition) ==
    [date |-> d, temperature_celsius |-> "12", condition |-> condition,
     precipitation_chance |-> "30", humidity |-> "60"]

AsmForecasts ==
    { <<WeatherOf(Date1, "Sunny"), WeatherOf(Date2, "Light rain")>>,
      <<WeatherOf(Date1, "Sunny")>> }

Entry(v) == [t |-> "obj", v |-> v]
NonObject(v) == [t |-> "other", v |-> [k \in DOMAIN v |-> Absent]]
ListOf(items) == [t |-> "list", items |-> items]
NoList(t) == [t |-> t, items |-> <<>>]

GoodActivity == [time |-> JStr("09:00"), description |-> JStr("Louvre")]
GoodMeal == [type |-> JStr("lunch"), suggestion |-> JStr("Bistro")]
GoodTransport == [time |-> JStr("08:30"), description |-> JStr("Metro line 1")]
SchemaEvent ==
    [name |-> JStr("Jazz night"), date |-> JStr(Date1), venue |-> JStr("Hall"),
     category |-> JStr("Music"), description |-> Absent, price_range |-> Absent]
\* the shape the prompt asks for: {name, time, location}
PromptEvent ==
    [name |-> JStr("Jazz night"), date |-> Absent, venue |-> Absent,
     category |-> Absent, description |-> Absent, price_range |-> Absent]

GoodStop ==
    [t |-> "obj", latitude |-> NNum(488606), longitude |-> NNum(23376),
     stop_name |-> JStr("Louvre")]
EmptyStop == [t |-> "obj", latitude |-> NAbsent, longitude |-> NAbsent, stop_name |-> Absent]
NonObjectStop == [EmptyStop EXCEPT !.t = "other"]
RouteOf(stops) == [t |-> "list", stops |-> stops]
NoRoute(t) == [t |-> t, stops |-> <<>>]

GoodAccommodation ==
    [name |-> JStr("Hotel Lutetia"), address |-> JStr("45 Bd Raspail"),
     details |-> JStr("4 stars")]
NoAccommodation == [name |-> Absent, address |-> Absent, details |-> Absent]

GoodCosts ==
    [activities |-> NNum(1), meals |-> NNum(2), transport |-> NNum(4),
     accommodation |-> NNum(8)]
NoCosts ==
    [activities |-> NAbsent, meals |-> NAbsent, transport |-> NAbsent,
     accommodation |-> NAbsent]

GoodSummary == [description |-> JStr("Mild"), recommendations |-> JStr("Take an umbrella")]

GoodDay(d) ==
    [t |-> "obj",
     date |-> JStr(d),
     activities |-> ListOf(<<Entry(GoodActivity)>>),
     meals |-> ListOf(<<Entry(GoodMeal)>>),
     transport |-> ListOf(<<Entry(GoodTransport)>>),
     accommodation |-> [t |-> "obj", v |-> GoodAccommodation],
     weather |-> [t |-> "absent", condition |-> ""],
     weather_summary |-> [t |-> "obj", v |-> GoodSummary],
     local_events |-> NoList("absent"),
     daily_route |-> RouteOf(<<GoodStop>>),
     estimated_costs |-> [t |-> "obj", v |-> GoodCosts]]

Day1 == GoodDay(Date1)

DateVariants ==
    { [Day1 EXCEPT !.date = x] : x \in {JStr(Date3), JNum(20250201), Absent} }

ListVariants ==
    { [Day1 EXCEPT !.activities = x] :
        x \in { NoList("absent"), NoList("null"), ListOf(<<>>),
                ListOf(<<Entry(GoodActivity),
                         Entry([GoodActivity EXCEPT !.description = Absent])>>),
                ListOf(<<NonObject(GoodActivity)>>) } }
    \cup { [Day1 EXCEPT !.meals = NoList("absent")],
           [Day1 EXCEPT !.transport = NoList("absent")],
           [Day1 EXCEPT !.local_events = ListOf(<<Entry(SchemaEvent)>>)],
           [Day1 EXCEPT !.local_events = ListOf(<<Entry(PromptEvent)>>)] }

AccommodationVariants ==
    { [Day1 EXCEPT !.accommodation = x] :
        x \in { [t |-> "absent", v |-> NoAccommodation],
                [t |-> "null", v |-> NoAccommodation],
                [t |-> "obj", v |-> [NoAccommodation EXCEPT !.name = JStr("Ritz")]],
                [t |-> "obj", v |-> [GoodAccommodation EXCEPT !.name = JStr("")]],
                [t |-> "obj", v |-> [GoodAccommodation EXCEPT !.details = JNum(5)]] } }

RouteVariants ==
    { [Day1 EXCEPT !.daily_route = x] :
        x \in { NoRoute("absent"), NoRoute("other"), RouteOf(<<>>),
                RouteOf(<<EmptyStop>>),
                RouteOf(<<GoodStop, [GoodStop EXCEPT !.latitude = NText(<<"4", "8">>)]>>),
                RouteOf(<<[GoodStop EXCEPT !.latitude = NText(<<"n", "/", "a">>)]>>),
                RouteOf(<<[GoodStop EXCEPT !.longitude = NNull]>>),
                RouteOf(<<NonObjectStop>>) } }

CostVariants ==
    { [Day1 EXCEPT !.estimated_costs = x] :
        x \in { [t |-> "absent", v |-> NoCosts],
                [t |-> "null", v |-> NoCosts],
                [t |-> "obj", v |-> [NoCosts EXCEPT !.activities = NNum(16)]],
                [t |-> "obj", v |-> [GoodCosts EXCEPT !.meals = NText(<<"3", "2">>)]],
                [t |-> "obj", v |-> [GoodCosts EXCEPT !.meals = NText(<<"n", "/", "a">>)]] } }

SummaryVariants ==
    { [Day1 EXCEPT !.weather_summary = x] :
        x \in { [t |-> "absent", v |-> [description |-> Absent, recommendations |-> Absent]],
                [t |-> "null", v |-> [description |-> Absent, recommendations |-> Absent]],
                [t |-> "obj", v |-> [GoodSummary EXCEPT !.recommendations = Absent]] } }

OtherVariants ==
    { [Day1 EXCEPT !.t = "other"],
      [Day1 EXCEPT !.weather = [t |-> "obj", condition |-> "Snow"]],
      [Day1 EXCEPT !.date = Absent, !.meals = NoList("absent")] }

DayPool ==
    {Day1, GoodDay(Date2)} \cup DateVariants \cup ListVariants \cup AccommodationVariants
    \cup RouteVariants \cup CostVariants \cup SummaryVariants \cup OtherVariants

TripSummaryFields ==
    {"trip_dates", "destination", "budget", "preferences", "must_visit_places", "trip_goal"}

GoodData(days) ==
    [trip_summary |-> [t |-> "obj", missing |-> {}],
     daily_itineraries |-> [t |-> "list", days |-> days],
     recommendations |-> [t |-> "list", items |-> <<"Book ahead">>],
     total_cost |-> NNum(999),
     weather_forecast |-> [t |-> "absent"]]

TwoDays == <<Day1, GoodDay(Date2)>>

TopVariants ==
    { [GoodData(TwoDays) EXCEPT !.trip_summary = x] :
        x \in { [t |-> "absent", missing |-> {}], [t |-> "null", missing |-> {}],
                [t |-> "obj", missing |-> {"trip_goal"}] } }
    \cup { [GoodData(TwoDays) EXCEPT !.recommendations = x] :
             x \in { [t |-> "absent", items |-> <<>>], [t |-> "null", items |-> <<>>] } }
    \cup { [GoodData(TwoDays) EXCEPT !.daily_itineraries = x] :
             x \in { [t |-> "absent", days |-> <<>>], [t |-> "null", days |-> <<>>] } }
    \cup { [GoodData(TwoDays) EXCEPT !.trip_summary = [t |-> "absent", missing |-> {}],
                                     !.recommendations = [t |-> "absent", items |-> <<>>]],
           [GoodData(TwoDays) EXCEPT !.weather_forecast = [t |-> "list"]] }
    \cup { [GoodData(TwoDays) EXCEPT !.total_cost = x] : x \in {NAbsent, NNum(0), NNum(30)} }

DataPool == { GoodData(days) : days \in SeqsUpTo(DayPool, MaxDays) } \cup TopVariants

NoResult == [error |-> NoError, itinerary |-> NoItinerary]

AsmInit ==
    /\ asm_pc = "parsed"
    /\ asm_data \in DataPool
    /\ asm_forecast \in AsmForecasts
    /\ asm_result = NoResult

AsmIdle ==
    /\ asm_pc = "idle"
    /\ asm_data = GoodData(<<>>)
    /\ asm_forecast = <<>>
    /\ asm_result = NoResult

\* _parse_itinerary_response from the validation on (lines 405-534)
Assemble ==
    /\ asm_pc = "parsed"
    /\ asm_result' = AssembleItinerary(asm_data, asm_forecast)
    /\ asm_pc' = IF asm_result'.error = NoError THEN "returned" ELSE "raised"
    /\ UNCHANGED <<asm_data, asm_forecast>>
    /\ UNCHANGED <<relVars, repVars, genVars, prmVars, evVars, rtVars,
                   wxVars>>

AsmNext == Assemble

(***************************************************************************)
(* Response repair: _clean_json_string and the parse of                    *)
(* _parse_itinerary_response (lines 392-403).                              *)
(***************************************************************************)
\* The character U+00E9, outside printable ASCII, as one element of a text.
EAcute == "U+00E9"

\* The grave accent U+0060, which the lexer of this language does not accept
\* inside a string.
Tick == "U+0060"

\* The fence markers: three grave accents followed by json, and three alone.
FenceOpen == <<Tick, Tick, Tick, "j", "s", "o", "n">>
Fence == <<Tick, Tick, Tick>>

\* The characters \s matches and strip() removes, among those of the texts.
Whitespace == {" ", "\t", "\n", "\r", "\f"}

\* Whitespace of the JSON grammar.
JsonWhitespace == {" ", "\t", "\n", "\r"}

\* Control characters (below 0x20) among those of the texts.
ControlChars == {"\t", "\n", "\r", "\f"}

\* [^\x20-\x7E]: a character the aggressive cleanup removes.
NonPrintable(c) == c \in ControlChars \/ c = EAcute

\* s[i:]
From(s, i) == SubSeq(s, i, Len(s))

\* s.startswith(sep, i - 1)
StartsAt(s, sep, i) ==
    /\ i + Len(sep) - 1 <= Len(s)
    /\ SubSeq(s, i, i + Len(sep) - 1) = sep

\* s.find(sep) + 1, or 0 when sep does not occur
Find(s, sep) ==
    IF \E i \in 1..Len(s) : StartsAt(s, sep, i)
    THEN CHOOSE i \in 1..Len(s) :
             StartsAt(s, sep, i) /\ \A j \in 1..(i - 1) : ~StartsAt(s, sep, j)
    ELSE 0

\* s.split(sep)
RECURSIVE Split(_, _)
Split(s, sep) ==
    LET i == Find(s, sep)
    IN  IF i = 0 THEN <<s>>
        ELSE <<SubSeq(s, 1, i - 1)>> \o Split(From(s, i + Len(sep)), sep)

\* The match of \s*[}\]] at position i.
RECURSIVE ClosesAt(_, _)
ClosesAt(s, i) ==
    /\ i <= Len(s)
    /\ \/ s[i] \in {"}", "]"}
       \/ s[i] \in Whitespace /\ ClosesAt(s, i + 1)

\* A removal of the commas that stand right before a closing brace or bracket.
RemoveTrailingCommasAdjacent(s) ==
    LET keep == {i \in 1..Len(s) :
                   ~(s[i] = "," /\ i + 1 <= Len(s) /\ s[i + 1] \in {"}", "]"})}
        Nth(n) == CHOOSE i \in keep : Cardinality({j \in keep : j < i}) = n - 1
    IN  [n \in 1..Cardinality(keep) |-> s[Nth(n)]]

\* re.sub(r',(\s*[}\]])', r'\1', s)
RemoveTrailingCommas(s) ==
    LET keep == {i \in 1..Len(s) : ~(s[i] = "," /\ ClosesAt(s, i + 1))}
        Nth(n) == CHOOSE i \in keep : Cardinality({j \in keep : j < i}) = n - 1
    IN  [n \in 1..Cardinality(keep) |-> s[Nth(n)]]

\* s.strip()
Strip(s) ==
    LET solid == {i \in 1..Len(s) : s[i] \notin Whitespace}
    IN  IF solid = {} THEN <<>>
        ELSE SubSeq(s, CHOOSE i \in solid : \A j \in solid : i <= j,
                       CHOOSE i \in solid : \A j \in solid : j <= i)

\* json_str.split(FenceOpen)[1].split(Fence)[0] when FenceOpen is in the text
ExtractFence(s) ==
    IF Find(s, FenceOpen) # 0
    THEN Split(Split(s, FenceOpen)[2], Fence)[1]
    ELSE s

\* _clean_json_string: its own except clause is never entered, no step raises
CleanJsonString(json_str) == Strip(RemoveTrailingCommas(ExtractFence(json_str)))

\* re.sub(r'[^\x20-\x7E]', '', json_str)
StripNonPrintable(s) == SelectSeq(s, LAMBDA c : ~NonPrintable(c))

(***************************************************************************)
(* json.loads.  A value is a record of one shape: k is its kind, s the     *)
(* characters of a string or the lexeme of a number or literal, items the  *)
(* elements of an array, members the key/value pairs of an object.  The    *)
(* texts drawn hold no backslash, sign, fraction or exponent, so escapes   *)
(* and those number forms are not modelled.                                *)
(***************************************************************************)
VStr(chars) == [k |-> "str", s |-> chars, items |-> <<>>, members |-> {}]
VNum(chars) == [k |-> "num", s |-> chars, items |-> <<>>, members |-> {}]
VLit(chars) == [k |-> "lit", s |-> chars, items |-> <<>>, members |-> {}]
VArr(items) == [k |-> "arr", s |-> <<>>, items |-> items, members |-> {}]
VObj(members) == [k |-> "obj", s |-> <<>>, items |-> <<>>, members |-> members]

VNone == VLit(<<>>)

\* A scan that failed, and one that read val and stopped before position next.
ScanFail == [ok |-> FALSE, val |-> VNone, next |-> 0]
Scanned(val, next) == [ok |-> TRUE, val |-> val, next |-> next]

Literals == {<<"n", "u", "l", "l">>, <<"t", "r", "u", "e">>, <<"f", "a", "l", "s", "e">>}

\* The first position from i on that holds no JSON whitespace.
RECURSIVE SkipWhitespace(_, _)
SkipWhitespace(s, i) ==
    IF i <= Len(s) /\ s[i] \in JsonWhitespace THEN SkipWhitespace(s, i + 1) ELSE i

\* The position of the quote that closes the string whose body starts at i,
\* or 0: a control character inside a string is an error.
RECURSIVE ClosingQuote(_, _)
ClosingQuote(s, i) ==
    IF i > Len(s) \/ s[i] \in ControlChars THEN 0
    ELSE IF s[i] = "\"" THEN i
    ELSE ClosingQuote(s, i + 1)

ScanString(s, i) ==
    LET q == ClosingQuote(s, i + 1)
    IN  IF q = 0 THEN ScanFail ELSE Scanned(VStr(SubSeq(s, i + 1, q - 1)), q + 1)

\* The position after the run of digits that starts at i.
RECURSIVE DigitsEnd(_, _)
DigitsEnd(s, i) ==
    IF i <= Len(s) /\ IsDigit(s[i]) THEN DigitsEnd(s, i + 1) ELSE i

\* An integer: 0, or a run of digits that does not start with 0.
ScanNumber(s, i) ==
    LET e == IF s[i] = "0" THEN i + 1 ELSE DigitsEnd(s, i)
    IN  Scanned(VNum(SubSeq(s, i, e - 1)), e)

ScanLiteral(s, i) ==
    IF \E l \in Literals : StartsAt(s, l, i)
    THEN LET l == CHOOSE l \in Literals : StartsAt(s, l, i)
         IN  Scanned(VLit(l), i + Len(l))
    ELSE ScanFail

\* dict: a later pair replaces an earlier pair of the same key
PutMember(members, key, val) ==
    {m \in members : m.key # key} \cup {[key |-> key, val |-> val]}

RECURSIVE ScanValue(_, _), ScanElements(_, _, _), ScanMembers(_, _, _)

\* The elements of an array from position i on, items being those read so far.
ScanElements(s, i, items) ==
    LET v == ScanValue(s, i)
        j == SkipWhitespace(s, v.next)
    IN  IF ~v.ok \/ j > Len(s) THEN ScanFail
        ELSE IF s[j] = "]" THEN Scanned(VArr(Append(items, v.val)), j + 1)
        ELSE IF s[j] = ","
             THEN ScanElements(s, SkipWhitespace(s, j + 1), Append(items, v.val))
        ELSE ScanFail

\* The pairs of an object from position i on, where a key must start.
ScanMembers(s, i, members) ==
    IF i > Len(s) \/ s[i] # "\"" THEN ScanFail
    ELSE LET key == ScanString(s, i)
             c == SkipWhitespace(s, key.next)
         IN  IF ~key.ok \/ c > Len(s) \/ s[c] # ":" THEN ScanFail
             ELSE LET v == ScanValue(s, SkipWhitespace(s, c + 1))
                      j == SkipWhitespace(s, v.next)
                      put == PutMember(members, key.val.s, v.val)
                  IN  IF ~v.ok \/ j > Len(s) THEN ScanFail
                      ELSE IF s[j] = "}" THEN Scanned(VObj(put), j + 1)
                      ELSE IF s[j] = ","
                           THEN ScanMembers(s, SkipWhitespace(s, j + 1), put)
                      ELSE ScanFail

ScanValue(s, i) ==
    IF i > Len(s) THEN ScanFail
    ELSE IF s[i] = "\"" THEN ScanString(s, i)
    ELSE IF s[i] = "["
         THEN LET j == SkipWhitespace(s, i + 1)
              IN  IF j <= Len(s) /\ s[j] = "]" THEN Scanned(VArr(<<>>), j + 1)
                  ELSE ScanElements(s, j, <<>>)
    ELSE IF s[i] = "{"
         THEN LET j == SkipWhitespace(s, i + 1)
              IN  IF j <= Len(s) /\ s[j] = "}" THEN Scanned(VObj({}), j + 1)
                  ELSE ScanMembers(s, j, {})
    ELSE IF IsDigit(s[i]) THEN ScanNumber(s, i)
    ELSE ScanLiteral(s, i)

\* json.loads(s): the value, or JSONDecodeError; text after the value is an error
JsonLoads(s) ==
    LET v == ScanValue(s, SkipWhitespace(s, 1))
    IN  IF v.ok /\ SkipWhitespace(s, v.next) > Len(s)
        THEN [ok |-> TRUE, data |-> v.val]
        ELSE [ok |-> FALSE, data |-> VNone]

\* A repair that gives up after the first parse.
ParseOnce(response_text) ==
    LET json_str == CleanJsonString(response_text)
        first == JsonLoads(json_str)
    IN  [ok |-> first.ok, data |-> first.data, parses |-> 1, json_str |-> json_str,
         cleaned |-> json_str]

\* Lines 393-403: clean, parse, and after a failed parse strip and parse once
\* more.  parses counts the calls of json.loads.
RepairAndParse(response_text) ==
    LET json_str == CleanJsonString(response_text)
        first == JsonLoads(json_str)
        second == JsonLoads(StripNonPrintable(json_str))
    IN  IF first.ok
        THEN [ok |-> TRUE, data |-> first.data, parses |-> 1, json_str |-> json_str,
              cleaned |-> json_str]
        ELSE [ok |-> second.ok, data |-> second.data, parses |-> 2, json_str |-> json_str,
              cleaned |-> StripNonPrintable(json_str)]

(***************************************************************************)
(* The response texts: every concatenation of up to MaxPieces pieces, and  *)
(* some longer texts.                                                      *)
(***************************************************************************)
Pieces == {<<"[">>, <<"]">>, <<",">>, <<"\"">>, <<"a">>, <<" ">>, FenceOpen, Fence}

RECURSIVE Concat(_)
Concat(texts) ==
    IF texts = <<>> THEN <<>> ELSE Head(texts) \o Concat(Tail(texts))

\* {"a":1,}
TrailingCommaObject == <<"{", "\"", "a", "\"", ":", "1", ",", "}">>

SampleTexts ==
    { FenceOpen \o <<"\n">> \o TrailingCommaObject \o <<"\n">> \o Fence,
      <<"a", " ">> \o FenceOpen \o <<"[", "1", ",", " ", "]">> \o Fence \o <<" ", "a">>,
      <<"{", "\"", "a", "\"", ":", "[", "1", ",", "0", "]", ",", " ",
        "\"", "a", "\"", ":", "n", "u", "l", "l", "}">>,
      <<"{", "\"", "a", "\"", ":", "\"", ",", "}", "\"", "}">>,
      <<"[", "\"", "a", "\n", "a", "\"", "]">>,
      <<"[", "\"", EAcute, "\"", "]", "\n">>,
      <<"[", "1", EAcute, "]">>,
      <<"[", "0", "1", "]">>,
      <<"\t", "t", "r", "u", "e", "\f">> }

RepTexts == { Concat(ps) : ps \in SeqsUpTo(Pieces, MaxPieces) } \cup SampleTexts

NoRepair ==
    [ok |-> FALSE, data |-> VNone, parses |-> 0, json_str |-> <<>>, cleaned |-> <<>>]

RepInit ==
    /\ rep_pc = "raw"
    /\ rep_text \in RepTexts
    /\ rep_result = NoRepair

RepIdle ==
    /\ rep_pc = "idle"
    /\ rep_text = <<>>
    /\ rep_result = NoRepair

\* _parse_itinerary_response up to the parsed data (lines 389-403)
Repair ==
    /\ rep_pc = "raw"
    /\ rep_result' = RepairAndParse(rep_text)
    /\ rep_pc' = IF rep_result'.ok THEN "parsed" ELSE "raised"
    /\ UNCHANGED rep_text
    /\ UNCHANGED <<relVars, asmVars, genVars, prmVars, evVars, rtVars,
                   wxVars>>

RepNext == Repair

(***************************************************************************)
(* _create_itinerary_prompt and _generate_weather_based_suggestions.       *)
(*                                                                         *)
(* The prompt is the sequence of the parts that vary with the arguments;   *)
(* the text between them is fixed.  A set of strings is iterated in the    *)
(* order of the hashes of its elements, and the hash of a string depends   *)
(* on the hash seed the interpreter draws when the process starts.         *)
(***************************************************************************)
\* An exception: its class and its message; wraps names the class of the
\* exception a wrapper was made from.
Exc(kind, message) == [kind |-> kind, message |-> message, wraps |-> ""]

NoExc == Exc("", "")

Date5 == "2025-02-05"

\* The day number of a date of the texts.
DayNumber(date) ==
    CASE date = Date1 -> 1 [] date = Date2 -> 2 [] date = Date5 -> 5 [] OTHER -> 9

\* A length that leaves the day of the return out.
TripDaysExclusive(trip) == DayNumber(trip.return_date) - DayNumber(trip.start_date)

\* (end_date - start_date).days + 1
TripDays(trip) == DayNumber(trip.return_date) - DayNumber(trip.start_date) + 1

\* The keys of weather_activities, in the order of the dict.
WeatherTypes ==
    << <<"s", "u", "n", "n", "y">>, <<"r", "a", "i", "n", "y">>,
       <<"c", "l", "o", "u", "d", "y">>, <<"c", "l", "e", "a", "r">> >>

\* The values of weather_activities, in the order of the dict.
WeatherActivities ==
    << <<"Schedule outdoor activities early morning or late afternoon",
         "Include water-based activities",
         "Plan for shade breaks",
         "Consider indoor alternatives during peak heat">>,
       <<"Prioritize indoor cultural activities",
         "Have backup indoor plans for outdoor activities",
         "Include covered transport options",
         "Schedule flexible activities that can be moved">>,
       <<"Ideal for outdoor sightseeing",
         "Good for photography tours",
         "Plan mix of indoor and outdoor activities",
         "Include weather-independent activities">>,
       <<"Perfect for outdoor adventures",
         "Schedule sunset viewing opportunities",
         "Plan outdoor dining experiences",
         "Include nature-based activities">> >>

AllActivities == Concat(WeatherActivities)

\* The condition labels of the forecasts drawn.
Sunny == <<"S", "u", "n", "n", "y">>
MostlySunny == <<"M", "o", "s", "t", "l", "y", " ", "s", "u", "n", "n", "y">>
Cloudy == <<"C", "l", "o", "u", "d", "y">>
LightRain == <<"L", "i", "g", "h", "t", " ", "R", "a", "i", "n">>

ConditionLabels == <<Lower(Sunny), Lower(MostlySunny), Lower(Cloudy), Lower(LightRain)>>

\* The position of x in the sequence universe, which holds x once.
IndexIn(universe, x) == CHOOSE k \in 1..Len(universe) : universe[k] = x

\* hash(x) under a hash seed, x being the code-th string of its universe: for
\* every seed a one-to-one map of the codes.
HashOf(code, seed) == (code * (2 * seed + 1)) % 17

\* Iteration over a set whose elements are inserted in the order of
\* `inserted`: each element once, in the order of the hashes.
SetIteration(inserted, universe, seed) ==
    LET S == {inserted[i] : i \in 1..Len(inserted)}
        H(x) == HashOf(IndexIn(universe, x), seed)
        Nth(n) == CHOOSE x \in S : Cardinality({y \in S : H(y) < H(x)}) = n - 1
    IN  [n \in 1..Cardinality(S) |-> Nth(n)]

\* weather_conditions as iterated: the lower-cased labels of the forecast
WeatherConditions(weather_forecast, seed) ==
    SetIteration([i \in 1..Len(weather_forecast) |-> Lower(weather_forecast[i].condition)],
                 ConditionLabels, seed)

\* Lines 329-332: the activities of the first weather type found in the condition.
ActivitiesFor(condition) ==
    LET hits == {k \in 1..Len(WeatherTypes) : Contains(WeatherTypes[k], condition)}
    IN  IF hits = {} THEN <<>>
        ELSE WeatherActivities[CHOOSE k \in hits : \A j \in hits : k <= j]

\* _generate_weather_based_suggestions: the lines of the text returned
GenerateWeatherBasedSuggestions(weather_conditions, seed) ==
    LET suggestions ==
            Concat([i \in 1..Len(weather_conditions) |-> ActivitiesFor(weather_conditions[i])])
    IN  SetIteration(suggestions, AllActivities, seed)

\* The list as it was built, without the sort.
KeepOrder(events_info) == events_info

\* events_info.sort(key=relevance, reverse=True): stable, highest score first
SortByRelevance(events_info) ==
    LET n == Len(events_info)
        Place(i) == 1 + Cardinality({j \in 1..n :
                         \/ events_info[j].relevance > events_info[i].relevance
                         \/ events_info[j].relevance = events_info[i].relevance /\ j < i})
    IN  [p \in 1..n |-> events_info[CHOOSE i \in 1..n : Place(i) = p]]

\* events_info[:5]
TopEvents(events_info) ==
    SubSeq(events_info, 1, IF Len(events_info) < 5 THEN Len(events_info) ELSE 5)

\* The integer nearest to num / den, den not 0: what the format :.2f gives for
\* an amount counted in cents.
RoundDiv(num, den) ==
    LET n == IF den < 0 THEN 0 - num ELSE num
        d == IF den < 0 THEN 0 - den ELSE den
    IN  IF n >= 0 THEN (2 * n + d) \div (2 * d)
        ELSE 0 - ((2 * (0 - n) + d) \div (2 * d))

\* f"{daily_budget:.2f}" in cents, daily_budget being budget / days; the
\* budgets and lengths drawn give no amount halfway between two cents.
DailyBudgetCents(budget, days) == RoundDiv(100 * budget, days)

\* f"{daily_budget * 0.4:.2f}" and the like in cents, percent being 40, 30, 20 or 10
HintCents(budget, days, percent) == RoundDiv(percent * budget, days)

\* The suggested split (lines 168-171).
Allocation(budget, days) ==
    [activities |-> HintCents(budget, days, 40), meals |-> HintCents(budget, days, 30),
     transport |-> HintCents(budget, days, 20), contingency |-> HintCents(budget, days, 10)]

EventInfo(event, relevance) ==
    [name |-> event.name, date |-> event.date, venue |-> event.venue,
     category |-> event.category, price_range |-> event.price_range,
     relevance |-> relevance]

NoPrompt ==
    [origin |-> "", destination |-> "", start_date |-> "", return_date |-> "",
     days |-> 0, weather_conditions |-> <<>>, daily_budget |-> 0,
     allocation |-> Allocation(0, 1),
     activity_suggestions |-> <<>>, weather_info |-> <<>>, events_info |-> <<>>]

Composed(prompt) == [ok |-> TRUE, exc |-> NoExc, prompt |-> prompt]
NotComposed(e) == [ok |-> FALSE, exc |-> e, prompt |-> NoPrompt]

\* _create_itinerary_prompt in a process of the given hash seed
CreateItineraryPrompt(travel_input, user_preferences, weather_data, seed) ==
    LET weather_conditions == WeatherConditions(weather_data.weather_forecast, seed)
        activity_suggestions == GenerateWeatherBasedSuggestions(weather_conditions, seed)
        scores == [i \in 1..Len(weather_data.local_events) |->
                      CalculateEventRelevance(weather_data.local_events[i],
                                              user_preferences.activities,
                                              weather_data.weather_forecast)]
        events_info == [i \in 1..Len(scores) |->
                           EventInfo(weather_data.local_events[i], scores[i].score)]
        days == TripDays(travel_input)
    IN  IF \E i \in 1..Len(scores) : ~scores[i].ok
        THEN NotComposed(Exc("ValueError", "could not convert string to float"))
        ELSE IF days = 0
        THEN NotComposed(Exc("ZeroDivisionError", "division by zero"))
        ELSE Composed(
               [origin |-> travel_input.origin,
                destination |-> travel_input.destination,
                start_date |-> travel_input.start_date,
                return_date |-> travel_input.return_date,
                days |-> days,
                weather_conditions |-> weather_conditions,
                daily_budget |-> DailyBudgetCents(user_preferences.budget, days),
                allocation |-> Allocation(user_preferences.budget, days),
                activity_suggestions |-> activity_suggestions,
                weather_info |-> weather_data.weather_forecast,
                events_info |-> TopEvents(SortByRelevance(events_info))])

(***************************************************************************)
(* The calls of _create_itinerary_prompt: the process that serves them has *)
(* a hash seed, and a restart starts a process with a seed of its own.     *)
(***************************************************************************)
Seeds == 0..MaxSeed

PrmDay(date, condition) ==
    [date |-> date, temperature_celsius |-> "20", condition |-> condition,
     precipitation_chance |-> <<"3", "0">>, humidity |-> "40"]

PrmForecasts ==
    { <<PrmDay(Date1, Sunny), PrmDay(Date2, Cloudy)>>,
      <<PrmDay(Date1, MostlySunny), PrmDay(Date2, Sunny)>>,
      <<PrmDay(Date1, LightRain), PrmDay(Date2, Cloudy)>> }

PrmEvent(name, category, description) ==
    [name |-> name, date |-> Date1, venue |-> "Hall", category |-> category,
     description |-> description, price_range |-> "$10"]

Arts == <<"A", "r", "t", "s">>
MartialArts == <<"M", "a", "r", "t", "i", "a", "l", " ", "A", "r", "t", "s">>
Food == <<"F", "o", "o", "d">>
OutdoorShow == <<"O", "u", "t", "d", "o", "o", "r", " ", "s", "h", "o", "w">>
IndoorShow == <<"I", "n", "d", "o", "o", "r", " ", "s", "h", "o", "w">>

SixEvents ==
    << PrmEvent("E1", Food, IndoorShow), PrmEvent("E2", Arts, OutdoorShow),
       PrmEvent("E3", MartialArts, IndoorShow), PrmEvent("E4", Arts, IndoorShow),
       PrmEvent("E5", Food, OutdoorShow), PrmEvent("E6", MartialArts, OutdoorShow) >>

PrmEventLists == { <<>>, SixEvents }

PrmTrips ==
    { [origin |-> "Lyon", destination |-> "Paris", start_date |-> Date1, return_date |-> Date2],
      [origin |-> "Lyon", destination |-> "Paris", start_date |-> Date2, return_date |-> Date1] }

PrmPreferences == [budget |-> 100, activities |-> << <<"a", "r", "t">>, <<"M", "A", "R">> >>]

PrmInputs ==
    [travel_input : PrmTrips, user_preferences : {PrmPreferences},
     weather_data : [weather_forecast : PrmForecasts, local_events : PrmEventLists]]

\* A call: its arguments, the seed of the process that served it, its result.
NoCall ==
    [called |-> FALSE, input |-> CHOOSE i \in PrmInputs : TRUE, seed |-> 0,
     result |-> NotComposed(NoExc)]

CallOf(input, seed) ==
    [called |-> TRUE, input |-> input, seed |-> seed,
     result |-> CreateItineraryPrompt(input.travel_input, input.user_preferences,
                                      input.weather_data, seed)]

PrmInit ==
    /\ prm_seed \in Seeds
    /\ prm_prev = NoCall
    /\ prm_last = NoCall

PrmIdle ==
    /\ prm_seed = 0
    /\ prm_prev = NoCall
    /\ prm_last = NoCall

\* A call of _create_itinerary_prompt; the two latest calls are kept.
ComposeCall ==
    /\ \E input \in PrmInputs :
           /\ prm_last' = CallOf(input, prm_seed)
           /\ prm_prev' = prm_last
    /\ UNCHANGED prm_seed
    /\ UNCHANGED <<relVars, asmVars, repVars, genVars, evVars, rtVars,
                   wxVars>>

\* The server process is started anew.
RestartProcess ==
    /\ \E seed \in Seeds : prm_seed' = seed
    /\ UNCHANGED <<prm_prev, prm_last>>
    /\ UNCHANGED <<relVars, asmVars, repVars, genVars, evVars, rtVars,
                   wxVars>>

PrmNext == ComposeCall \/ RestartProcess

(***************************************************************************)
(* One call of _create_itinerary_prompt, over more arguments: the trips    *)
(* and budgets with one forecast and no event, and the event lists of up   *)
(* to MaxEvents events with one trip and budget.                           *)
(***************************************************************************)
Trip(start_date, return_date) ==
    [origin |-> "Lyon", destination |-> "Paris",
     start_date |-> start_date, return_date |-> return_date]

\* A date string that strptime(v, '%Y-%m-%d') does not accept.
SlashDate == "01/02/2025"

\* TravelInput.validate_date: datetime.strptime(v, '%Y-%m-%d') succeeds on the
\* dates written year-month-day and raises on the others; the value is returned
\* as it came.
ValidateDate(v) ==
    IF v \in {Date1, Date2, Date3, Date5} THEN [ok |-> TRUE, value |-> v]
    ELSE [ok |-> FALSE, value |-> "Date must be in YYYY-MM-DD format"]

\* TravelInput(**fields): the validator runs on start_date and on return_date,
\* one field at a time; nothing compares the two dates.
TravelInput(fields) ==
    IF ValidateDate(fields.start_date).ok /\ ValidateDate(fields.return_date).ok
    THEN [ok |-> TRUE,
          model |-> [fields EXCEPT !.start_date = ValidateDate(fields.start_date).value,
                                   !.return_date = ValidateDate(fields.return_date).value]]
    ELSE [ok |-> FALSE, model |-> fields]

\* The requests sent, and the travel inputs that construction lets through.
TripRequests ==
    { Trip(Date1, Date1), Trip(Date1, Date2), Trip(Date1, Date5), Trip(Date1, Date3),
      Trip(Date2, Date1), Trip(Date5, Date1), Trip(SlashDate, Date2), Trip(Date1, SlashDate) }

ComposeTrips == { TravelInput(fields).model : fields \in { f \in TripRequests : TravelInput(f).ok } }

ComposeBudgets == {100, 2000}

EventPool ==
    { PrmEvent("E1", Food, IndoorShow), PrmEvent("E2", Arts, OutdoorShow),
      PrmEvent("E3", MartialArts, IndoorShow) }

InputOf(travel_input, budget, weather_forecast, local_events) ==
    [travel_input |-> travel_input,
     user_preferences |-> [PrmPreferences EXCEPT !.budget = budget],
     weather_data |-> [weather_forecast |-> weather_forecast, local_events |-> local_events]]

ComposeInputs ==
    { InputOf(t, b, <<PrmDay(Date1, Sunny), PrmDay(Date2, Cloudy)>>, <<>>) :
          t \in ComposeTrips, b \in ComposeBudgets }
    \cup { InputOf(Trip(Date1, Date2), 100, f, events) :
               f \in PrmForecasts, events \in SeqsUpTo(EventPool, MaxEvents) }

\* The one call of this process.
ComposeOnce ==
    /\ ~prm_last.called
    /\ \E input \in ComposeInputs : prm_last' = CallOf(input, prm_seed)
    /\ UNCHANGED <<prm_seed, prm_prev>>
    /\ UNCHANGED <<relVars, asmVars, repVars, genVars, evVars, rtVars,
                   wxVars>>

ComposeNext == ComposeOnce

(***************************************************************************)
(* generate_itinerary and _retry_with_exponential_backoff.                 *)
(***************************************************************************)
\* self.max_retries and self.retry_delay (seconds)
max_retries == 1
retry_delay == 1

\* Exceptions: ValueError and its subclasses pass generate_itinerary
\* unchanged, every other exception is wrapped in a ValueError.
ValueErrors == {"ValueError", "ValidationError", "JSONDecodeError"}

\* Except clauses that let every exception pass as it is.
SurfaceUnchanged(e) == e

\* The except clauses of generate_itinerary (lines 90-95); the message of the
\* wrapper is "Failed to generate itinerary: " followed by the message of
\* the wrapped exception.
Surface(e) ==
    IF e.kind \in ValueErrors THEN e
    ELSE [kind |-> "ValueError", message |-> e.message, wraps |-> e.kind]

GenTrips == [start_date : {Date1, Date2}, return_date : {Date1, Date2}]

\* weather_data: None, or a WeatherResponse with its forecast
NoWeatherData == [present |-> FALSE, forecast |-> <<>>]
WeatherData(forecast) == [present |-> TRUE, forecast |-> forecast]
GenWeather == {NoWeatherData, WeatherData(<<>>)} \cup {WeatherData(f) : f \in AsmForecasts}

\* A composition that raises nothing.
ComposeNeverFails(trip) == NoExc

\* _create_itinerary_prompt as far as it can fail: the division by the
\* number of days (line 153)
ComposeFailure(trip) ==
    IF TripDays(trip) = 0 THEN Exc("ZeroDivisionError", "division by zero") ELSE NoExc

\* What generate_content_async gives: no response, a response without text,
\* a text that does not repair to JSON, a text that repairs to data.
NoResponse == [kind |-> "none", data |-> GoodData(<<>>)]
EmptyResponse == [kind |-> "empty", data |-> GoodData(<<>>)]
MalformedResponse == [kind |-> "malformed", data |-> GoodData(<<>>)]
DataResponse(data) == [kind |-> "data", data |-> data]

\* One-day responses, two-day responses whose second day fails or not, and
\* the variants of the top-level fields.
GenDataPool ==
    { GoodData(<<d>>) : d \in DayPool }
    \cup { GoodData(<<Day1, d>>) : d \in DateVariants \cup OtherVariants }
    \cup TopVariants

GenResponses ==
    {NoResponse, EmptyResponse, MalformedResponse} \cup {DataResponse(d) : d \in GenDataPool}

\* What the call ends with: a response, or an exception of the provider.
Responded(response) == [raised |-> FALSE, exc |-> NoExc, response |-> response]
Failed(e) == [raised |-> TRUE, exc |-> e, response |-> NoResponse]

CallResults ==
    {Responded(r) : r \in GenResponses}
    \cup {Failed(Exc("ServiceUnavailable", "503")), Failed(Exc("ValueError", "invalid argument"))}

\* (2 ** attempt) * self.retry_delay
WaitTime(attempt) == (2 ^ attempt) * retry_delay

Returned(itinerary) == [kind |-> "returned", exc |-> NoExc, itinerary |-> itinerary]
Raised(e) == [kind |-> "raised", exc |-> Surface(e), itinerary |-> NoItinerary]
NoOutcome == [kind |-> "", exc |-> NoExc, itinerary |-> NoItinerary]

\* The exception of a failed assembly.
ExcOf(error) == Exc(error.kind, error.message)

\* A conclusion that hands a response without text to the parse.
ConcludeWithoutTextCheck(response, forecast) ==
    IF response.kind \in {"none", "empty", "malformed"}
    THEN Raised(Exc("JSONDecodeError", "Expecting value"))
    ELSE LET result == AssembleItinerary(response.data, forecast)
         IN  IF result.error # NoError THEN Raised(ExcOf(result.error))
             ELSE Returned(result.itinerary)

\* Lines 73-88: the check of the response, the parse and the check of the result.
Conclude(response, forecast) ==
    IF response.kind \in {"none", "empty"}
    THEN Raised(Exc("ValueError", "Failed to generate itinerary content"))
    ELSE IF response.kind = "malformed"
    THEN Raised(Exc("JSONDecodeError", "Expecting value"))
    ELSE LET result == AssembleItinerary(response.data, forecast)
         IN  IF result.error # NoError THEN Raised(ExcOf(result.error))
             ELSE IF result.itinerary.daily_itineraries = <<>>
             THEN Raised(Exc("ValueError", "Generated itinerary is invalid or empty"))
             ELSE Returned(result.itinerary)

GenInit ==
    /\ gen_pc = "start"
    /\ gen_weather \in GenWeather
    /\ gen_trip \in GenTrips
    /\ gen_attempt = 0
    /\ gen_calls = 0
    /\ gen_waits = <<>>
    /\ gen_failures = <<>>
    /\ gen_response = NoResponse
    /\ gen_parses = 0
    /\ gen_outcome = NoOutcome

GenIdle ==
    /\ gen_pc = "idle"
    /\ gen_weather = NoWeatherData
    /\ gen_trip = [start_date |-> Date1, return_date |-> Date1]
    /\ gen_attempt = 0
    /\ gen_calls = 0
    /\ gen_waits = <<>>
    /\ gen_failures = <<>>
    /\ gen_response = NoResponse
    /\ gen_parses = 0
    /\ gen_outcome = NoOutcome

\* Lines 51-65: the check of the weather data and the composition of the prompt.
Begin ==
    /\ gen_pc = "start"
    /\ IF ~gen_weather.present \/ gen_weather.forecast = <<>>
       THEN /\ gen_outcome' = Raised(Exc("ValueError",
                                 "Weather data is required for itinerary generation"))
            /\ gen_pc' = "done"
       ELSE IF ComposeFailure(gen_trip) # NoExc
       THEN /\ gen_outcome' = Raised(ComposeFailure(gen_trip))
            /\ gen_pc' = "done"
       ELSE /\ gen_outcome' = gen_outcome
            /\ gen_pc' = "calling"
    /\ UNCHANGED <<gen_weather, gen_trip, gen_attempt, gen_calls, gen_waits,
                   gen_failures, gen_response, gen_parses>>
    /\ UNCHANGED <<relVars, asmVars, repVars, prmVars, evVars, rtVars,
                   wxVars>>

\* One pass of the loop of _retry_with_exponential_backoff (lines 35-43): the
\* call, and after a failure the re-raise or the wait before the next pass.
Attempt ==
    /\ gen_pc = "calling"
    /\ gen_attempt < max_retries
    /\ \E result \in CallResults :
        /\ gen_calls' = gen_calls + 1
        /\ IF ~result.raised
           THEN /\ gen_response' = result.response
                /\ gen_pc' = "received"
                /\ UNCHANGED <<gen_attempt, gen_waits, gen_failures, gen_outcome>>
           ELSE /\ gen_failures' = Append(gen_failures, result.exc)
                /\ gen_response' = gen_response
                /\ IF gen_attempt = max_retries - 1
                   THEN /\ gen_outcome' = Raised(result.exc)
                        /\ gen_pc' = "done"
                        /\ UNCHANGED <<gen_attempt, gen_waits>>
                   ELSE /\ gen_waits' = Append(gen_waits, WaitTime(gen_attempt))
                        /\ gen_attempt' = gen_attempt + 1
                        /\ UNCHANGED <<gen_pc, gen_outcome>>
    /\ UNCHANGED <<gen_weather, gen_trip, gen_parses>>
    /\ UNCHANGED <<relVars, asmVars, repVars, prmVars, evVars, rtVars,
                   wxVars>>

\* An orchestrator that asks for a new response when the repair or the
\* assembly of the response has failed.
FinishOrCallAgain ==
    /\ gen_pc = "received"
    /\ LET outcome == Conclude(gen_response, gen_weather.forecast)
           again == outcome.kind = "raised" /\ gen_parses = 0
                    /\ gen_response.kind \notin {"none", "empty"}
       IN  /\ gen_outcome' = IF again THEN gen_outcome ELSE outcome
           /\ gen_pc' = IF again THEN "calling" ELSE "done"
    /\ gen_parses' = IF gen_response.kind \in {"none", "empty"} THEN gen_parses
                     ELSE gen_parses + 1
    /\ UNCHANGED <<gen_weather, gen_trip, gen_attempt, gen_calls, gen_waits,
                   gen_failures, gen_response>>
    /\ UNCHANGED <<relVars, asmVars, repVars, prmVars, evVars, rtVars,
                   wxVars>>

\* Lines 73-95 after the call has returned.
Finish ==
    /\ gen_pc = "received"
    /\ gen_outcome' = Conclude(gen_response, gen_weather.forecast)
    /\ gen_parses' = IF gen_response.kind \in {"none", "empty"} THEN gen_parses
                     ELSE gen_parses + 1
    /\ gen_pc' = "done"
    /\ UNCHANGED <<gen_weather, gen_trip, gen_attempt, gen_calls, gen_waits,
                   gen_failures, gen_response>>
    /\ UNCHANGED <<relVars, asmVars, repVars, prmVars, evVars, rtVars,
                   wxVars>>

GenNext == Begin \/ Attempt \/ Finish

(***************************************************************************)
(* The events store, the /itinerary handler and the weather agent at rest. *)
(***************************************************************************)
EvIdle == ev_db = <<>> /\ ev_lock = 0 /\ ev_req = <<>>

\* What the handler answers: the status, the type of the error detail, the
\* exception the detail reports, and the itinerary of a 200.
Reply(status, type, error, itinerary) ==
    [status |-> status, type |-> type, error |-> error,
     itinerary |-> itinerary]

NoReply == Reply(0, "", NoExc, NoItinerary)

\* What get_transport_options ends with: a TransportResponse or a ValueError.
Options(options) == [raised |-> FALSE, exc |-> NoExc, options |-> options]

TransportRaised(e) == [raised |-> TRUE, exc |-> e, options |-> <<>>]

NoTransport == Options(<<>>)

RtIdle ==
    /\ rt_pc = "idle"
    /\ rt_forecast = <<>>
    /\ rt_transport = NoTransport
    /\ rt_stages = <<>>
    /\ rt_response = NoReply

\* An HTTP response: its status and what its body holds.  The body of a
\* forecast is not JSON, or JSON without the forecast, or a list of days.
HttpResponse(status, json, forecast, days) ==
    [status |-> status, json |-> json, forecast |-> forecast, days |-> days]

NoHttpResponse == HttpResponse(0, FALSE, FALSE, <<>>)

\* What get_weather_and_events ends with.
WeatherResponse(weather_forecast, local_events) ==
    [kind |-> "returned", weather_forecast |-> weather_forecast,
     local_events |-> local_events]

NoWeatherResponse ==
    [kind |-> "", weather_forecast |-> <<>>, local_events |-> <<>>]

WxIdle ==
    /\ wx_pc = "idle"
    /\ wx_calls = 0
    /\ wx_waits = <<>>
    /\ wx_failures = <<>>
    /\ wx_steps = 0
    /\ wx_response = NoHttpResponse
    /\ wx_forecast = <<>>
    /\ wx_result = NoWeatherResponse

(***************************************************************************)
(* Specifications: one per component, the other components at rest.        *)
(***************************************************************************)
InitRelevance == RelInit /\ AsmIdle /\ RepIdle /\ GenIdle /\ PrmIdle
    /\ EvIdle /\ RtIdle /\ WxIdle

SpecRelevance == InitRelevance /\ [][RelNext]_vars

InitAssemble == AsmInit /\ RelIdle /\ RepIdle /\ GenIdle /\ PrmIdle
    /\ EvIdle /\ RtIdle /\ WxIdle

SpecAssemble == InitAssemble /\ [][AsmNext]_vars

InitRepair == RepInit /\ RelIdle /\ AsmIdle /\ GenIdle /\ PrmIdle
    /\ EvIdle /\ RtIdle /\ WxIdle

SpecRepair == InitRepair /\ [][RepNext]_vars

InitGenerate == GenInit /\ RelIdle /\ AsmIdle /\ RepIdle /\ PrmIdle
    /\ EvIdle /\ RtIdle /\ WxIdle

SpecGenerate == InitGenerate /\ [][GenNext]_vars

InitPrompt == PrmInit /\ RelIdle /\ AsmIdle /\ RepIdle /\ GenIdle
    /\ EvIdle /\ RtIdle /\ WxIdle

SpecPrompt == InitPrompt /\ [][PrmNext]_vars

InitCompose == PrmInit /\ RelIdle /\ AsmIdle /\ RepIdle /\ GenIdle
    /\ EvIdle /\ RtIdle /\ WxIdle

SpecCompose == InitCompose /\ [][ComposeNext]_vars

(***************************************************************************)
(* The events store of routers/events.py: the list events_db guarded by    *)
(* events_lock, used by concurrent create, update, delete and list calls.  *)
(* Dates are counted in days from now.                                     *)
(***************************************************************************)
MaxRequests == 2

Requests == 1 .. MaxRequests

DefaultLimit == 10

MalformedId == "not-a-uuid"

StoredEvents ==
    << [id |-> "a1", category |-> "Music", date |-> 3],
       [id |-> "a2", category |-> "Sports", date |-> 2] >>

EventCreate ==
    { [category |-> "Music", date |-> 1],
      [category |-> "Sports", date |-> 5] }

NoEventCreate == [category |-> "", date |-> 0]

Event(id, event) ==
    [id |-> id, category |-> event.category, date |-> event.date]

\* uuid.uuid4() of create_event: an id no stored event and no other call has.
Uuid4(r) == <<"n1", "n2", "n3", "n4">>[r]

\* uuid.UUID(event_id) of update_event and delete_event.
IsUuid(event_id) == event_id # MalformedId

\* validate_date, run again each time an Event is built: a date that was in
\* the future when the request was read may have passed by now.
MayHavePassed(event) == event.date = 1

\* next((i for i, e in enumerate(events_db) if e.id == event_id), None),
\* with 0 for None.
EventIdx(db, event_id) ==
    IF \E i \in 1 .. Len(db) : db[i].id = event_id
    THEN CHOOSE i \in 1 .. Len(db) :
             /\ db[i].id = event_id
             /\ \A j \in 1 .. (i - 1) : db[j].id # event_id
    ELSE 0

\* events_db.pop(event_idx); an index outside the list raises IndexError and
\* leaves the list as it was.
Pop(db, i) ==
    IF i \in 1 .. Len(db)
    THEN SubSeq(db, 1, i - 1) \o SubSeq(db, i + 1, Len(db))
    ELSE db

\* events_db[event_idx] = updated_event, likewise.
SetItem(db, i, e) ==
    IF i \in 1 .. Len(db) THEN [db EXCEPT ![i] = e] ELSE db

RECURSIVE SortByDate(_)
\* filtered_events.sort(key=lambda x: x.date): stable.
SortByDate(events) ==
    IF events = <<>> THEN <<>>
    ELSE LET rest == SortByDate(Tail(events))
             e == Head(events)
             before == SelectSeq(rest, LAMBDA x : x.date < e.date)
             after == SelectSeq(rest, LAMBDA x : x.date >= e.date)
         IN  before \o <<e>> \o after

\* The filtering of get_events after the copy was taken: the category
\* filter, the sort by date and the limit.
FilterEvents(copy, categories) ==
    LET kept == IF categories = "" THEN copy
                ELSE SelectSeq(copy, LAMBDA e : e.category = categories)
        sorted == SortByDate(kept)
    IN  SubSeq(sorted, 1, IF Len(sorted) < DefaultLimit THEN Len(sorted)
                          ELSE DefaultLimit)

Call(op, event_id, event, categories) ==
    [op |-> op, id |-> event_id, event |-> event, categories |-> categories,
     pc |-> "start", idx |-> 0, copy |-> <<>>, status |-> 0, body |-> <<>>]

Calls ==
    { Call("create", "", e, "") : e \in EventCreate }
    \cup { Call(op, id, NoEventCreate, "") :
               op \in {"delete"}, id \in {"a1", "a2", "zz", MalformedId} }
    \cup { Call("update", id, e, "") :
               id \in {"a1", "a2", "zz", MalformedId}, e \in EventCreate }
    \cup { Call("list", "", NoEventCreate, c) : c \in {"", "Music"} }

EvInit ==
    /\ ev_db = StoredEvents
    /\ ev_lock = 0
    /\ ev_req \in [Requests -> Calls]

Ended(r, status, body) ==
    ev_req' = [ev_req EXCEPT ![r].pc = "done", ![r].status = status,
                             ![r].body = body]

At(r, pc) == ev_req' = [ev_req EXCEPT ![r].pc = pc]

\* The part of each handler before its with events_lock block.
EvBegin(r) ==
    /\ ev_req[r].pc = "start"
    /\ \/ /\ ev_req[r].op \in {"update", "delete"}
          /\ IF IsUuid(ev_req[r].id) THEN At(r, "enter")
             ELSE Ended(r, 400, <<>>)
       \/ /\ ev_req[r].op = "create"
          /\ \/ ev_req' = [ev_req EXCEPT ![r].pc = "enter",
                                         ![r].id = Uuid4(r)]
             \/ /\ MayHavePassed(ev_req[r].event)
                /\ Ended(r, 500, <<>>)
       \/ /\ ev_req[r].op = "list"
          /\ At(r, "enter")
    /\ UNCHANGED <<ev_db, ev_lock>>
    /\ UNCHANGED <<relVars, asmVars, repVars, genVars, prmVars, rtVars,
                   wxVars>>

\* A call that takes the lock whether or not another call holds it.
EvAcquireAnyway(r) ==
    /\ ev_req[r].pc = "enter"
    /\ ev_lock' = r
    /\ At(r, "locked")
    /\ UNCHANGED ev_db
    /\ UNCHANGED <<relVars, asmVars, repVars, genVars, prmVars, rtVars,
                   wxVars>>

\* with events_lock: entered only while no other call holds the lock.
EvAcquire(r) ==
    /\ ev_req[r].pc = "enter"
    /\ ev_lock = 0
    /\ ev_lock' = r
    /\ At(r, "locked")
    /\ UNCHANGED ev_db
    /\ UNCHANGED <<relVars, asmVars, repVars, genVars, prmVars, rtVars,
                   wxVars>>

\* The index lookup of update_event and delete_event; a 404 leaves the block.
EvLookup(r) ==
    /\ ev_req[r].pc = "locked"
    /\ ev_req[r].op \in {"update", "delete"}
    /\ LET event_idx == EventIdx(ev_db, ev_req[r].id)
       IN  IF event_idx = 0
           THEN /\ Ended(r, 404, <<>>)
                /\ ev_lock' = 0
           ELSE /\ ev_req' = [ev_req EXCEPT ![r].pc = "found",
                                            ![r].idx = event_idx]
                /\ UNCHANGED ev_lock
    /\ UNCHANGED ev_db
    /\ UNCHANGED <<relVars, asmVars, repVars, genVars, prmVars, rtVars,
                   wxVars>>

\* updated_event = Event(...); events_db[event_idx] = updated_event.
EvReplace(r) ==
    /\ ev_req[r].pc = "found"
    /\ ev_req[r].op = "update"
    /\ \/ /\ ev_db' = SetItem(ev_db, ev_req[r].idx,
                              Event(ev_req[r].id, ev_req[r].event))
          /\ At(r, "leave")
          /\ UNCHANGED ev_lock
       \/ /\ MayHavePassed(ev_req[r].event)
          /\ Ended(r, 500, <<>>)
          /\ ev_lock' = 0
          /\ UNCHANGED ev_db
    /\ UNCHANGED <<relVars, asmVars, repVars, genVars, prmVars, rtVars,
                   wxVars>>

\* events_db.pop(event_idx).
EvRemove(r) ==
    /\ ev_req[r].pc = "found"
    /\ ev_req[r].op = "delete"
    /\ ev_db' = Pop(ev_db, ev_req[r].idx)
    /\ At(r, "leave")
    /\ UNCHANGED ev_lock
    /\ UNCHANGED <<relVars, asmVars, repVars, genVars, prmVars, rtVars,
                   wxVars>>

\* events_db.append(new_event).
EvAppend(r) ==
    /\ ev_req[r].pc = "locked"
    /\ ev_req[r].op = "create"
    /\ ev_db' = Append(ev_db, Event(ev_req[r].id, ev_req[r].event))
    /\ At(r, "leave")
    /\ UNCHANGED ev_lock
    /\ UNCHANGED <<relVars, asmVars, repVars, genVars, prmVars, rtVars,
                   wxVars>>

\* filtered_events = events_db.copy().
EvCopy(r) ==
    /\ ev_req[r].pc = "locked"
    /\ ev_req[r].op = "list"
    /\ ev_req' = [ev_req EXCEPT ![r].pc = "leave", ![r].copy = ev_db]
    /\ UNCHANGED <<ev_db, ev_lock>>
    /\ UNCHANGED <<relVars, asmVars, repVars, genVars, prmVars, rtVars,
                   wxVars>>

\* The end of the with block, and the return of the three writing handlers.
EvRelease(r) ==
    /\ ev_req[r].pc = "leave"
    /\ ev_lock' = 0
    /\ CASE ev_req[r].op = "list" -> At(r, "filter")
         [] ev_req[r].op = "create" ->
                Ended(r, 201, <<Event(ev_req[r].id, ev_req[r].event)>>)
         [] ev_req[r].op = "update" ->
                Ended(r, 200, <<Event(ev_req[r].id, ev_req[r].event)>>)
         [] OTHER -> Ended(r, 204, <<>>)
    /\ UNCHANGED ev_db
    /\ UNCHANGED <<relVars, asmVars, repVars, genVars, prmVars, rtVars,
                   wxVars>>

\* The rest of get_events, on its copy.
EvFilter(r) ==
    /\ ev_req[r].pc = "filter"
    /\ Ended(r, 200, FilterEvents(ev_req[r].copy, ev_req[r].categories))
    /\ UNCHANGED <<ev_db, ev_lock>>
    /\ UNCHANGED <<relVars, asmVars, repVars, genVars, prmVars, rtVars,
                   wxVars>>

EvNext ==
    \E r \in Requests :
        \/ EvBegin(r)
        \/ EvAcquire(r)
        \/ EvLookup(r)
        \/ EvReplace(r)
        \/ EvRemove(r)
        \/ EvAppend(r)
        \/ EvCopy(r)
        \/ EvRelease(r)
        \/ EvFilter(r)

InitEvents == EvInit /\ RelIdle /\ AsmIdle /\ RepIdle /\ GenIdle /\ PrmIdle
    /\ RtIdle /\ WxIdle

SpecEvents == InitEvents /\ [][EvNext]_vars

(***************************************************************************)
(* The /itinerary handler of routers/itinerary.py: weather fetch,          *)
(* transport fetch, generation (the orchestrator above), and the answer.   *)
(***************************************************************************)
\* A TransportOption as _parse_transport_response builds it.
TransportOption ==
    [mode |-> "train", provider |-> "SNCF", departure |-> "2025-02-01 08:00",
     arrival |-> "2025-02-01 10:15", price |-> "45.0", duration |-> "135",
     details |-> "{}"]

\* The dict the handler makes of an option (lines 120-128): every field is
\* a str already, so str(...) and the isinstance test leave it as it is.
OptionDict(option) ==
    [mode |-> option.mode, provider |-> option.provider,
     departure |-> option.departure, arrival |-> option.arrival,
     price |-> option.price, duration |-> option.duration,
     details |-> option.details]

RECURSIVE OptionDicts(_)
OptionDicts(options) ==
    IF options = <<>> THEN <<>>
    ELSE <<OptionDict(Head(options))>> \o OptionDicts(Tail(options))

\* get_transport_options (transport_agent.py, lines 22-51): a response with
\* options, a response without, or a ValueError.
TransportResults ==
    { Options(<<>>), Options(<<TransportOption>>),
      Options(<<TransportOption, TransportOption>>),
      TransportRaised(Exc("ValueError", "Failed to get transport options")) }

\* weather_response.weather_forecast
RtForecasts == {<<>>} \cup AsmForecasts

\* except ValueError of the handler: the class or a subclass.
IsValueError(e) == e.kind \in ValueErrors

RtInit ==
    /\ rt_pc = "start"
    /\ rt_forecast = <<>>
    /\ rt_transport = NoTransport
    /\ rt_stages = <<>>
    /\ rt_response = NoReply

\* A first step that goes on without a forecast.
RtWeatherUnchecked ==
    /\ rt_pc = "start"
    /\ \E forecast \in RtForecasts :
           /\ rt_forecast' = forecast
           /\ rt_stages' = Append(rt_stages, "weather")
           /\ rt_pc' = "transport"
           /\ UNCHANGED rt_response
    /\ UNCHANGED rt_transport
    /\ UNCHANGED <<relVars, asmVars, repVars, genVars, prmVars, evVars,
                   wxVars>>

\* Step 1 (lines 84-92): the weather fetch and the 503 of an empty forecast.
RtWeather ==
    /\ rt_pc = "start"
    /\ \E forecast \in RtForecasts :
           /\ rt_forecast' = forecast
           /\ rt_stages' = Append(rt_stages, "weather")
           /\ IF forecast = <<>>
              THEN /\ rt_response' = Reply(503, "WEATHER_ERROR", NoExc,
                                           NoItinerary)
                   /\ rt_pc' = "done"
              ELSE /\ rt_pc' = "transport"
                   /\ UNCHANGED rt_response
    /\ UNCHANGED rt_transport
    /\ UNCHANGED <<relVars, asmVars, repVars, genVars, prmVars, evVars,
                   wxVars>>

\* Step 2 (lines 97-104): the transport fetch; its exception reaches the
\* outer except Exception (lines 157-166).
RtTransport ==
    /\ rt_pc = "transport"
    /\ \E result \in TransportResults :
           /\ rt_transport' = result
           /\ rt_stages' = Append(rt_stages, "transport")
           /\ IF result.raised
              THEN /\ rt_response' = Reply(500, "UNEXPECTED_ERROR",
                                           result.exc, NoItinerary)
                   /\ rt_pc' = "done"
              ELSE /\ rt_pc' = "generate"
                   /\ UNCHANGED rt_response
    /\ UNCHANGED rt_forecast
    /\ UNCHANGED <<relVars, asmVars, repVars, genVars, prmVars, evVars,
                   wxVars>>

\* Step 3 (lines 108-113): the call of itinerary_agent.generate_itinerary
\* with the weather response and the travel input of the request.
RtGenerate ==
    /\ rt_pc = "generate"
    /\ gen_pc = "idle"
    /\ gen_pc' = "start"
    /\ gen_weather' = WeatherData(rt_forecast)
    /\ gen_trip' \in GenTrips
    /\ rt_stages' = Append(rt_stages, "generation")
    /\ rt_pc' = "generating"
    /\ UNCHANGED <<gen_attempt, gen_calls, gen_waits, gen_failures,
                   gen_response, gen_parses, gen_outcome>>
    /\ UNCHANGED <<rt_forecast, rt_transport, rt_response>>
    /\ UNCHANGED <<relVars, asmVars, repVars, prmVars, evVars, wxVars>>

\* Lines 115-155: the transport options added to the itinerary and the
\* return, or the except clauses of the inner try.
RtRespond ==
    /\ rt_pc = "generating"
    /\ gen_pc = "done"
    /\ rt_response' =
           IF gen_outcome.kind = "returned"
           THEN Reply(200, "", NoExc,
                      IF rt_transport.options # <<>>
                      THEN [gen_outcome.itinerary EXCEPT
                                !.transport_options =
                                    OptionDicts(rt_transport.options)]
                      ELSE gen_outcome.itinerary)
           ELSE IF IsValueError(gen_outcome.exc)
           THEN Reply(422, "VALIDATION_ERROR", gen_outcome.exc, NoItinerary)
           ELSE Reply(500, "GENERATION_ERROR", gen_outcome.exc, NoItinerary)
    /\ rt_pc' = "done"
    /\ UNCHANGED <<rt_forecast, rt_transport, rt_stages>>
    /\ UNCHANGED <<relVars, asmVars, repVars, genVars, prmVars, evVars,
                   wxVars>>

RtNext ==
    RtWeather \/ RtTransport \/ RtGenerate \/ Begin \/ Attempt \/ Finish
    \/ RtRespond

InitRouter == RtInit /\ RelIdle /\ AsmIdle /\ RepIdle /\ GenIdle /\ PrmIdle
    /\ EvIdle /\ WxIdle

SpecRouter == InitRouter /\ [][RtNext]_vars

(***************************************************************************)
(* The weather agent of agents/weather_agent.py: get_weather_and_events,   *)
(* the forecast fetched through _retry_with_exponential_backoff and the    *)
(* events fetched with one call.                                           *)
(***************************************************************************)
weather_max_retries == 3
weather_retry_delay == 1

\* A day of data["forecast"]["forecastday"]: complete, or lacking a key
\* (KeyError), or with a value of the wrong type (TypeError).
ForecastDay(d, kind) == [date |-> d, kind |-> kind]

ForecastBodies ==
    { <<ForecastDay(Date1, "complete"), ForecastDay(Date2, "complete")>>,
      <<ForecastDay(Date1, "complete"), ForecastDay(Date2, "lacking")>>,
      <<ForecastDay(Date1, "lacking")>>,
      <<ForecastDay(Date1, "complete"), ForecastDay(Date2, "mistyped")>>,
      <<>> }

\* What client.get returns when it returns.
HttpResponses ==
    { HttpResponse(200, TRUE, TRUE, days) : days \in ForecastBodies }
    \cup { HttpResponse(200, TRUE, FALSE, <<>>),
           HttpResponse(200, FALSE, FALSE, <<>>),
           HttpResponse(500, FALSE, FALSE, <<>>) }

\* What client.get raises when it raises.
HttpFailures == {"ConnectError", "ReadTimeout"}

\* A wait that does not grow.
WeatherWaitFixed(attempt) == weather_retry_delay

\* wait_time = (2 ** attempt) * self.retry_delay
WeatherWaitTime(attempt) == (2 ^ attempt) * weather_retry_delay

RECURSIVE ForecastDays(_)
\* The loop of lines 124-138 over the days kept: a day that raises KeyError
\* or ValueError is left out.
ForecastDays(days) ==
    IF days = <<>> THEN <<>>
    ELSE IF Head(days).kind = "complete"
    THEN <<WeatherOf(Head(days).date, "Sunny")>> \o ForecastDays(Tail(days))
    ELSE ForecastDays(Tail(days))

\* Lines 119-149 after the call has returned: raise_for_status, response.json
\* and the days; every exception ends in return [].
ParseForecast(response) ==
    IF response.status >= 400 \/ ~response.json \/ ~response.forecast
    THEN <<>>
    ELSE IF \E i \in 1 .. Len(response.days) :
                response.days[i].kind = "mistyped"
    THEN <<>>
    ELSE ForecastDays(response.days)

\* What _fetch_local_events ends with: the events of the response, [] after
\* an error of the call or of the response, or an exception raised before
\* its try block.
EventsReturned(events) == [raised |-> FALSE, events |-> events]

EventsRaised == [raised |-> TRUE, events |-> <<>>]

LocalEvent ==
    [name |-> "Show", date |-> Date1, venue |-> "Hall", category |-> "Music",
     description |-> "No description available", price_range |-> "N/A"]

EventsResults ==
    {EventsReturned(<<>>), EventsReturned(<<LocalEvent>>), EventsRaised}

WxInit ==
    /\ wx_pc = "start"
    /\ wx_calls = 0
    /\ wx_waits = <<>>
    /\ wx_failures = <<>>
    /\ wx_steps = 0
    /\ wx_response = NoHttpResponse
    /\ wx_forecast = <<>>
    /\ wx_result = NoWeatherResponse

\* Lines 58-68 and 98-109: the dates, the client and the parameters of the
\* forecast call; an exception here reaches the except of line 83.
WxStart ==
    /\ wx_pc = "start"
    /\ wx_steps' = wx_steps + 1
    /\ \/ /\ wx_pc' = "calling"
          /\ UNCHANGED wx_result
       \/ /\ wx_pc' = "done"
          /\ wx_result' = WeatherResponse(<<>>, <<>>)
    /\ UNCHANGED <<wx_calls, wx_waits, wx_failures, wx_response, wx_forecast>>
    /\ UNCHANGED <<relVars, asmVars, repVars, genVars, prmVars, evVars,
                   rtVars>>

\* One pass of the loop of _retry_with_exponential_backoff (lines 31-39)
\* around client.get; the exception of the last pass is caught at lines
\* 145-150.
WxAttempt ==
    /\ wx_pc = "calling"
    /\ wx_calls < weather_max_retries
    /\ wx_steps' = wx_steps + 1
    /\ wx_calls' = wx_calls + 1
    /\ \/ \E response \in HttpResponses :
              /\ wx_response' = response
              /\ wx_pc' = "received"
              /\ UNCHANGED <<wx_waits, wx_failures, wx_forecast>>
       \/ \E e \in HttpFailures :
              /\ wx_failures' = Append(wx_failures, e)
              /\ wx_forecast' = <<>>
              /\ IF wx_calls = weather_max_retries - 1
                 THEN /\ wx_pc' = "events"
                      /\ UNCHANGED wx_waits
                 ELSE /\ wx_waits' = Append(wx_waits,
                                            WeatherWaitTime(wx_calls))
                      /\ UNCHANGED wx_pc
              /\ UNCHANGED wx_response
    /\ UNCHANGED wx_result
    /\ UNCHANGED <<relVars, asmVars, repVars, genVars, prmVars, evVars,
                   rtVars>>

\* Lines 119-150: the forecast made of the response.
WxForecast ==
    /\ wx_pc = "received"
    /\ wx_steps' = wx_steps + 1
    /\ wx_forecast' = ParseForecast(wx_response)
    /\ wx_pc' = "events"
    /\ UNCHANGED <<wx_calls, wx_waits, wx_failures, wx_response, wx_result>>
    /\ UNCHANGED <<relVars, asmVars, repVars, genVars, prmVars, evVars,
                   rtVars>>

\* Lines 71-89: _fetch_local_events, called once, and the return.
WxEvents ==
    /\ wx_pc = "events"
    /\ wx_steps' = wx_steps + 1
    /\ \E result \in EventsResults :
           wx_result' = IF result.raised THEN WeatherResponse(<<>>, <<>>)
                        ELSE WeatherResponse(wx_forecast, result.events)
    /\ wx_pc' = "done"
    /\ UNCHANGED <<wx_calls, wx_waits, wx_failures, wx_response, wx_forecast>>
    /\ UNCHANGED <<relVars, asmVars, repVars, genVars, prmVars, evVars,
                   rtVars>>

WxNext == WxStart \/ WxAttempt \/ WxForecast \/ WxEvents

InitWeather == WxInit /\ RelIdle /\ AsmIdle /\ RepIdle /\ GenIdle /\ PrmIdle
    /\ EvIdle /\ RtIdle

SpecWeather == InitWeather /\ [][WxNext]_vars

(***************************************************************************)
(* Claims about the Itinerary Assembler.                                   *)
(***************************************************************************)
AsmReturned == asm_pc = "returned"

ResultDays == asm_result.itinerary.daily_itineraries

DataDays == asm_data.daily_itineraries.days

FourComponents(day) ==
    day.estimated_costs.activities + day.estimated_costs.meals
    + day.estimated_costs.transport + day.estimated_costs.accommodation

\* C1: the returned total_cost is the sum over the assembled days of the four
\* cost components, a component the response leaves out counting as 0.0, and
\* it is the same whatever total_cost the response holds.
C1_TotalCostIsSumOfDays ==
    AsmReturned =>
        /\ asm_result.itinerary.total_cost
             = SumSeq([i \in 1..Len(ResultDays) |-> FourComponents(ResultDays[i])])
        /\ \A i \in 1..Len(ResultDays) : \A k \in DOMAIN ResultDays[i].estimated_costs :
               ~Has(DataDays[i].estimated_costs.v[k]) =>
                   ResultDays[i].estimated_costs[k] = 0
        /\ \A x \in {NAbsent, NNum(0), NNum(999)} :
               AssembleItinerary([asm_data EXCEPT !.total_cost = x], asm_forecast)
                 = asm_result

C1_Witness ==
    /\ AsmReturned
    /\ Len(ResultDays) = 2
    /\ DataDays[1].estimated_costs.v.meals = NAbsent
    /\ DataDays[1].estimated_costs.v.activities = NNum(16)
    /\ asm_data.total_cost = NNum(999)
    /\ asm_result.itinerary.total_cost = 31

\* A day that is complete but for its "accommodation" key.
OnlyAccommodationMissing(day) ==
    /\ day.accommodation.t = "absent"
    /\ [day EXCEPT !.accommodation = Day1.accommodation] \in {Day1, GoodDay(Date2)}

\* C2 as stated: a day without the "accommodation" key, complete otherwise,
\* does not fail the assembly and gets the default accommodation.
C2_MissingAccommodationDefaults ==
    \A i \in 1..Len(DataDays) :
        ( /\ asm_pc # "parsed"
          /\ \A j \in 1..Len(DataDays) :
                 DataDays[j] \in {Day1, GoodDay(Date2)} \/ OnlyAccommodationMissing(DataDays[j])
          /\ OnlyAccommodationMissing(DataDays[i]) )
        => /\ AsmReturned
           /\ ResultDays[i].accommodation = DefaultAccommodation

\* The calendar days of the trip window: the dates of the authoritative forecast.
WindowDates == [i \in 1..Len(asm_forecast) |-> asm_forecast[i].date]

\* C5 as stated: a returned itinerary has exactly one DailyPlan per calendar
\* day of the trip window, in order, without gaps or repeated dates.
C5_OneDayPerCalendarDay ==
    AsmReturned => [i \in 1..Len(ResultDays) |-> ResultDays[i].date] = WindowDates

\* C6 as stated: once validation has passed, the weather lookup, the route
\* stops and the accommodation never fail the assembly.
C6_SelfHealingSteps ==
    asm_pc = "raised" =>
        asm_result.error.step \notin {"weather", "daily_route", "accommodation"}

\* The entries whose date is a date string that no record of the forecast has.
Unforecast(day) ==
    /\ day.date.t = "str"
    /\ \A k \in 1..Len(asm_forecast) : asm_forecast[k].date # day.date.s

\* An entry that is complete and well formed, whatever its date string.
GoodButForDate(day) == day.date.t = "str" /\ [day EXCEPT !.date = JStr(Date1)] = Day1

\* The top-level fields of the response other than the days are well formed.
GoodTop ==
    /\ asm_data.trip_summary = GoodData(<<>>).trip_summary
    /\ asm_data.recommendations = GoodData(<<>>).recommendations

\* C13: when the date (a date string) of a daily-plan entry is the date of no
\* record of the authoritative forecast, the weather lookup does not abort the
\* assembly (a response that is well formed otherwise is assembled), and the weather
\* of that day is the placeholder: the entry's date, temperature "0",
\* condition "Unknown", precipitation chance "0", humidity "0".
C13_PlaceholderWeather ==
    ( /\ asm_pc \in {"returned", "raised"}
      /\ ValidateItineraryData(asm_data) = NoError
      /\ \E i \in 1..Len(DataDays) : Unforecast(DataDays[i]) )
    => /\ (\A j \in 1..Len(DataDays) : DataDays[j].date.t = "str")
            => ~(asm_pc = "raised" /\ asm_result.error.step = "weather")
       /\ (GoodTop /\ \A j \in 1..Len(DataDays) : GoodButForDate(DataDays[j])) => AsmReturned
       /\ AsmReturned =>
             \A i \in 1..Len(DataDays) :
                 Unforecast(DataDays[i]) =>
                     ResultDays[i].weather
                       = [date |-> DataDays[i].date.s, temperature_celsius |-> "0",
                          condition |-> "Unknown", precipitation_chance |-> "0",
                          humidity |-> "0"]

C13_Witness ==
    /\ AsmReturned
    /\ Len(DataDays) = 2
    /\ ~Unforecast(DataDays[1])
    /\ Unforecast(DataDays[2])
    /\ DataDays[2].date.s = Date3
    /\ ResultDays[2].weather.condition = "Unknown"
    /\ ResultDays[2].weather.date = Date3

\* The required top-level fields whose key the response does not hold.
AbsentTop ==
    SelectSeq(<<"trip_summary", "daily_itineraries", "recommendations">>,
              LAMBDA f : asm_data[f].t = "absent")

\* C14: when the top-level object lacks any of trip_summary, daily_itineraries
\* or recommendations, the validation raises the missing-fields error, the
\* error names exactly the absent fields ("recommendations" alone when only
\* that one is missing), and no itinerary is built.
C14_MissingFieldsNamed ==
    (asm_pc \in {"returned", "raised"} /\ AbsentTop # <<>>)
    => /\ asm_pc = "raised"
       /\ asm_result.error.kind = "ValueError"
       /\ asm_result.error.step = "validate"
       /\ asm_result.error.message = "Missing required fields in itinerary data"
       /\ asm_result.error.fields = AbsentTop
       /\ asm_result.itinerary = NoItinerary
       /\ (asm_data.recommendations.t = "absent" /\ Len(AbsentTop) = 1)
            => asm_result.error.fields = <<"recommendations">>

C14_Witness ==
    /\ asm_pc = "raised"
    /\ asm_data.trip_summary.t = "absent"
    /\ asm_data.recommendations.t = "absent"
    /\ asm_result.error.fields = <<"trip_summary", "recommendations">>

\* The response without the weather values of the LLM: no "weather_forecast"
\* at the top, no "weather" in any day.
WithoutLlmWeather(data) ==
    [data EXCEPT !.weather_forecast = [t |-> "absent"],
                 !.daily_itineraries.days =
                     [i \in 1..Len(@) |-> [@[i] EXCEPT !.weather = GoodDay(Date1).weather]]]

\* C16: the weather_forecast of the assembled itinerary is the authoritative
\* forecast, record for record in the same order; a day whose date is that of
\* a forecast record carries that record as its weather; and the outcome is
\* the one the response gives once its "weather" and "weather_forecast" values
\* are taken out.
C16_AuthoritativeWeather ==
    asm_pc \in {"returned", "raised"} =>
        /\ asm_result = AssembleItinerary(WithoutLlmWeather(asm_data), asm_forecast)
        /\ AsmReturned =>
              /\ asm_result.itinerary.weather_forecast = asm_forecast
              /\ \A i \in 1..Len(ResultDays) : \A k \in 1..Len(asm_forecast) :
                     asm_forecast[k].date = ResultDays[i].date
                        => ResultDays[i].weather = asm_forecast[k]

C16_Witness ==
    /\ AsmReturned
    /\ \E i \in 1..Len(DataDays) :
          /\ DataDays[i].weather.t = "obj"
          /\ DataDays[i].weather.condition = "Snow"
          /\ ResultDays[i].weather = asm_forecast[1]
          /\ ResultDays[i].weather.condition = "Sunny"
    /\ asm_result.itinerary.weather_forecast = asm_forecast

\* The required fields whose key the entry does not hold.
AbsentOfDay(day) ==
    SelectSeq(<<"date", "activities", "meals", "transport", "accommodation">>,
              LAMBDA f : day[f].t = "absent")

\* The entry is no object, or lacks a required field.
InvalidEntry(day) == day.t # "obj" \/ AbsentOfDay(day) # <<>>

\* The top-level fields are there and the daily plans are a non-empty list.
DaysReached ==
    /\ asm_pc \in {"returned", "raised"}
    /\ AbsentTop = <<>>
    /\ asm_data.daily_itineraries.t = "list"
    /\ DataDays # <<>>

FirstInvalid(i) ==
    /\ InvalidEntry(DataDays[i])
    /\ \A j \in 1..(i - 1) : ~InvalidEntry(DataDays[j])

\* What C24 says of every invalid entry, object or not: the missing-day-fields
\* error that names the fields absent from the entry.
MissingDayFieldsError(day) ==
    /\ asm_pc = "raised"
    /\ asm_result.error.step = "validate"
    /\ asm_result.error.kind = "ValueError"
    /\ asm_result.itinerary = NoItinerary
    /\ asm_result.error.message = "Missing required fields in day data"
    /\ asm_result.error.fields = AbsentOfDay(day)

\* C24 as stated: the validation goes through the entries in list order before
\* any day is built; the first entry that is not an object, or that lacks a
\* required field, ends the assembly with the missing-day-fields error naming
\* exactly the fields absent from that entry, even after complete entries.
C24_FirstInvalidEntryNamed ==
    DaysReached =>
        \A i \in 1..Len(DataDays) : FirstInvalid(i) => MissingDayFieldsError(DataDays[i])

\* C24, amended: as above for an entry that is an object lacking a required
\* field; an entry that is not an object ends the assembly in the validation
\* too, with the error "Each day in daily_itineraries must be a dictionary",
\* which names no field.
C24_FirstInvalidEntryEnds ==
    DaysReached =>
        \A i \in 1..Len(DataDays) :
            FirstInvalid(i) =>
                IF DataDays[i].t = "obj" THEN MissingDayFieldsError(DataDays[i])
                ELSE /\ asm_pc = "raised"
                     /\ asm_result.error.step = "validate"
                     /\ asm_result.error.kind = "ValueError"
                     /\ asm_result.itinerary = NoItinerary
                     /\ asm_result.error.message
                          = "Each day in daily_itineraries must be a dictionary"
                     /\ asm_result.error.fields = <<>>

\* A first entry that would fail in the assembly, a second entry without date
\* and meals: the validation error of the second entry is raised.
C24_Witness ==
    /\ DaysReached
    /\ Len(DataDays) = 2
    /\ ~InvalidEntry(DataDays[1])
    /\ FirstFailure(Steps(DataDays[1], asm_forecast)) # NoError
    /\ asm_result.error.step = "validate"
    /\ asm_result.error.fields = <<"date", "meals">>

\* The day of the response provides no route stops: no key, null, or an empty list.
NoStopsProvided(day) ==
    day.daily_route.t \in {"absent", "null"}
    \/ (day.daily_route.t = "list" /\ day.daily_route.stops = <<>>)

\* C25 as stated: every assembled day has a non-empty sequence of route stops;
\* without provided stops it is exactly one stop at the fallback point labelled
\* "Unknown Stop"; otherwise it has one stop per provided entry, in order, an
\* absent latitude, longitude or label being replaced by the fallback point
\* and "Unknown Stop".
C25_FallbackStopUnknown ==
    AsmReturned =>
        \A i \in 1..Len(ResultDays) :
            /\ ResultDays[i].daily_route # <<>>
            /\ IF NoStopsProvided(DataDays[i])
               THEN ResultDays[i].daily_route
                      = << [latitude |-> 488566, longitude |-> 23522,
                            stop_name |-> "Unknown Stop"] >>
               ELSE /\ Len(ResultDays[i].daily_route) = Len(DataDays[i].daily_route.stops)
                    /\ \A k \in 1..Len(ResultDays[i].daily_route) :
                          LET stop == DataDays[i].daily_route.stops[k]
                              built == ResultDays[i].daily_route[k]
                          IN  /\ ~Has(stop.latitude) => built.latitude = 488566
                              /\ ~Has(stop.longitude) => built.longitude = 23522
                              /\ ~Has(stop.stop_name) => built.stop_name = "Unknown Stop"
                              /\ stop.latitude.t = "num" => built.latitude = stop.latitude.n
                              /\ stop.longitude.t = "num" => built.longitude = stop.longitude.n
                              /\ stop.stop_name.t = "str" => built.stop_name = stop.stop_name.s

\* The weather summary of the entry is left out, or is an object whose fields
\* are strings or left out; the entry is complete and well formed otherwise.
SummaryPartlyGiven(day) ==
    /\ \/ day.weather_summary.t = "absent"
       \/ /\ day.weather_summary.t = "obj"
          /\ \A k \in DOMAIN day.weather_summary.v :
                 day.weather_summary.v[k].t \in {"str", "absent"}
    /\ [day EXCEPT !.weather_summary = Day1.weather_summary] \in {Day1, GoodDay(Date2)}

\* The field of the summary as C26 has it: the text given, "No data" otherwise.
SummaryField(day, k) ==
    IF day.weather_summary.t = "obj" /\ day.weather_summary.v[k].t = "str"
    THEN day.weather_summary.v[k].s
    ELSE "No data"

\* C26 as stated: each of the fields description and recommendations of a
\* day's weather summary that the response leaves out is set to "No data",
\* when the whole weather_summary is left out and also when it is given with
\* one field only; the field given is kept and the assembly does not fail.
C26_SummaryFieldsDefault ==
    ( /\ asm_pc \in {"returned", "raised"}
      /\ AbsentTop = <<>>
      /\ GoodTop
      /\ asm_data.daily_itineraries.t = "list"
      /\ DataDays # <<>>
      /\ \A i \in 1..Len(DataDays) : SummaryPartlyGiven(DataDays[i]) )
    => /\ AsmReturned
       /\ \A i \in 1..Len(DataDays) :
              ResultDays[i].weather_summary
                = [description |-> SummaryField(DataDays[i], "description"),
                   recommendations |-> SummaryField(DataDays[i], "recommendations")]

(***************************************************************************)
(* Claims about the Response Repairer.                                     *)
(***************************************************************************)
\* C3 as stated: for every text that is well-formed JSON, the repair followed
\* by the parse yields the data that parsing the text directly yields.
C3_RepairKeepsWellFormedJson ==
    (rep_pc \in {"parsed", "raised"} /\ JsonLoads(rep_text).ok) =>
        /\ rep_result.ok
        /\ rep_result.data = JsonLoads(rep_text).data

\* The positions of the text where the marker starts.
Occurrences(text, marker) ==
    {i \in 1..Len(text) :
        i + Len(marker) - 1 <= Len(text) /\ SubSeq(text, i, i + Len(marker) - 1) = marker}

Least(positions) == CHOOSE i \in positions : \A j \in positions : i <= j

\* The text between the first opening marker and the next fence marker (the
\* end of the text when no marker follows), or the whole text without a fence.
Fenced(text) ==
    IF Occurrences(text, FenceOpen) = {} THEN text
    ELSE LET first == Least(Occurrences(text, FenceOpen)) + Len(FenceOpen)
             closing == {j \in Occurrences(text, Fence) : j >= first}
         IN  SubSeq(text, first, IF closing = {} THEN Len(text) ELSE Least(closing) - 1)

\* The comma at position i is followed only by whitespace and then } or ].
TrailingComma(text, i) ==
    /\ text[i] = ","
    /\ \E j \in (i + 1)..Len(text) :
          /\ text[j] \in {"}", "]"}
          /\ \A k \in (i + 1)..(j - 1) : text[k] \in Whitespace

\* text is cleaned with its trailing commas taken out and its ends trimmed
Repaired(text, cleaned) ==
    LET keep == {i \in 1..Len(text) : ~TrailingComma(text, i)}
        solid == {i \in keep : text[i] \notin Whitespace}
        kept == {i \in keep : \E a \in solid : \E b \in solid : a <= i /\ i <= b}
    IN  /\ Len(cleaned) = Cardinality(kept)
        /\ \A i \in kept : cleaned[1 + Cardinality({j \in kept : j < i})] = text[i]

\* C18: _clean_json_string returns, for a text with the opening fence marker,
\* the text between the first such marker and the next fence marker, and for
\* a text without it the whole text; in both cases with every comma that is
\* followed only by whitespace and then } or ] removed, and with the
\* whitespace at both ends trimmed.  The fenced text {"a":1,} gives {"a":1}.
C18_CleanJsonString ==
    rep_pc \in {"parsed", "raised"} =>
        /\ Repaired(Fenced(rep_text), rep_result.json_str)
        /\ rep_text = FenceOpen \o <<"\n">> \o TrailingCommaObject \o <<"\n">> \o Fence
             => rep_result.json_str = <<"{", "\"", "a", "\"", ":", "1", "}">>

C18_Witness ==
    /\ rep_pc = "parsed"
    /\ rep_text = FenceOpen \o <<"\n">> \o TrailingCommaObject \o <<"\n">> \o Fence
    /\ rep_result.json_str = <<"{", "\"", "a", "\"", ":", "1", "}">>

\* The characters of the texts outside 0x20-0x7E.
OutsidePrintableAscii == {"\t", "\n", "\r", "\f", EAcute}

\* C19: when the first parse of the cleaned text fails, every character
\* outside printable ASCII is stripped and the text is parsed once more, and
\* never a third time; when that parse fails too the repair ends with the
\* error; when the first parse succeeds the text is not stripped.
C19_SecondParseOnce ==
    rep_pc \in {"parsed", "raised"} =>
        /\ rep_result.parses \in {1, 2}
        /\ JsonLoads(rep_result.json_str).ok =>
              /\ rep_result.parses = 1
              /\ rep_result.cleaned = rep_result.json_str
              /\ rep_pc = "parsed"
              /\ rep_result.data = JsonLoads(rep_result.json_str).data
        /\ ~JsonLoads(rep_result.json_str).ok =>
              /\ rep_result.parses = 2
              /\ rep_result.cleaned
                   = SelectSeq(rep_result.json_str, LAMBDA c : c \notin OutsidePrintableAscii)
              /\ rep_pc = "parsed" <=> JsonLoads(rep_result.cleaned).ok
              /\ rep_pc = "parsed" => rep_result.data = JsonLoads(rep_result.cleaned).data

\* A text that parses only after the strip.
C19_Witness ==
    /\ rep_pc = "parsed"
    /\ rep_result.parses = 2
    /\ ~JsonLoads(rep_result.json_str).ok
    /\ Len(rep_result.cleaned) < Len(rep_result.json_str)

(***************************************************************************)
(* Claims about the Generation Orchestrator.                               *)
(***************************************************************************)
\* C4 as stated: a failing generation call is retried with exponential
\* backoff: when generate_itinerary ends after a call has failed, the first
\* failure was followed by a wait of retry_delay * 2^0 and by another call,
\* and the failure raised is that of the last attempt.
C4_FailingCallIsRetried ==
    (gen_pc = "done" /\ gen_failures # <<>>) =>
        /\ gen_calls >= 2
        /\ gen_waits # <<>>
        /\ gen_waits[1] = retry_delay
        /\ gen_outcome.kind = "raised" =>
               gen_outcome.exc = Surface(gen_failures[Len(gen_failures)])

\* The days of the response the call received.
ResponseDays == gen_response.data.daily_itineraries.days

\* C15: generate_itinerary returns only a complete itinerary with at least one
\* daily plan: every entry of the response is assembled, in order; in every
\* other outcome it raises and returns nothing, so an itinerary holding only
\* the days before a failing day is never returned.
C15_CompleteOrNothing ==
    gen_pc = "done" =>
        /\ gen_outcome.kind \in {"returned", "raised"}
        /\ gen_outcome.kind = "raised" =>
               gen_outcome.itinerary = NoItinerary /\ gen_outcome.exc # NoExc
        /\ gen_outcome.kind = "returned" =>
               /\ gen_outcome.exc = NoExc
               /\ gen_response.kind = "data"
               /\ Len(gen_outcome.itinerary.daily_itineraries) >= 1
               /\ Len(gen_outcome.itinerary.daily_itineraries) = Len(ResponseDays)
               /\ \A i \in 1..Len(ResponseDays) :
                      /\ ResponseDays[i].t = "obj"
                      /\ ResponseDays[i].date.t = "str"
                      /\ gen_outcome.itinerary.daily_itineraries[i].date = ResponseDays[i].date.s
               /\ gen_outcome.itinerary.trip_summary = gen_response.data.trip_summary
               /\ gen_outcome.itinerary.recommendations = gen_response.data.recommendations.items

\* A response whose first day is assembled and whose second day fails: raised.
C15_Witness ==
    /\ gen_pc = "done"
    /\ gen_response.kind = "data"
    /\ gen_response.data.daily_itineraries.t = "list"
    /\ Len(ResponseDays) = 2
    /\ ResponseDays[1] = Day1
    /\ ResponseDays[2].date.t = "num"
    /\ gen_outcome.kind = "raised"
    /\ gen_outcome.itinerary = NoItinerary

\* C20: within one call of generate_itinerary the response text is repaired
\* and assembled at most once; once that has happened the call has ended,
\* with the itinerary or with the error, and the generation call, made once
\* for that response after the calls that failed, is not made again.
C20_RepairAndAssemblyOnce ==
    /\ gen_parses <= 1
    /\ gen_parses = 1 =>
          /\ gen_pc = "done"
          /\ gen_outcome.kind \in {"returned", "raised"}
          /\ gen_calls = Len(gen_failures) + 1
          /\ ~ENABLED Attempt
          /\ ~ENABLED Finish

\* A response whose assembly fails: one call, one parse, the error.
C20_Witness ==
    /\ gen_pc = "done"
    /\ gen_parses = 1
    /\ gen_calls = 1
    /\ gen_response.kind = "data"
    /\ gen_outcome.kind = "raised"

\* The generation call has returned (it did not raise) in this call of
\* generate_itinerary.
CallReturned == gen_calls = Len(gen_failures) + 1 /\ gen_pc \in {"received", "done"}

\* C21: when the generation call returns no response, or a response without
\* text, generate_itinerary fails with the error "Failed to generate itinerary
\* content"; the generation call is not made again and the response is
\* neither repaired nor assembled.
C21_EmptyResponseFails ==
    (gen_pc = "done" /\ CallReturned /\ gen_response.kind \in {"none", "empty"})
    => /\ gen_outcome.kind = "raised"
       /\ gen_outcome.exc.kind = "ValueError"
       /\ gen_outcome.exc.message = "Failed to generate itinerary content"
       /\ gen_outcome.exc.wraps = ""
       /\ gen_outcome.itinerary = NoItinerary
       /\ gen_parses = 0
       /\ ~ENABLED Attempt
       /\ ~ENABLED Finish

C21_Witness ==
    /\ gen_pc = "done"
    /\ CallReturned
    /\ gen_calls = 1
    /\ gen_response = EmptyResponse
    /\ gen_outcome.kind = "raised"
    /\ gen_parses = 0

\* The forecast handed to generate_itinerary is missing or empty.
NoForecast == ~gen_weather.present \/ gen_weather.forecast = <<>>

\* The composition of the prompt raises: the trip length is zero.
CompositionRaises ==
    DayNumber(gen_trip.return_date) - DayNumber(gen_trip.start_date) + 1 = 0

\* C22: the generation call is made only after the forecast was found
\* non-empty and the prompt was composed without an exception; when the
\* forecast is missing or empty, or the composition raises, generate_itinerary
\* fails without any generation call.
C22_CallOnlyAfterPrompt ==
    /\ (gen_calls >= 1 \/ gen_pc \in {"calling", "received"})
          => ~NoForecast /\ ~CompositionRaises
    /\ (gen_pc = "done" /\ (NoForecast \/ CompositionRaises))
          => /\ gen_calls = 0
             /\ gen_outcome.kind = "raised"
             /\ gen_outcome.exc.kind = "ValueError"
             /\ gen_response = NoResponse
             /\ ~ENABLED Attempt

\* A forecast is there, the composition divides by a length of zero: no call.
C22_Witness ==
    /\ gen_pc = "done"
    /\ ~NoForecast
    /\ CompositionRaises
    /\ gen_calls = 0
    /\ gen_outcome.kind = "raised"
    /\ gen_outcome.exc.wraps = "ZeroDivisionError"

(***************************************************************************)
(* Claims about the Prompt Composer.                                       *)
(***************************************************************************)
\* The call of the single-call specification, when it composed a prompt.
Composed1 == prm_last.called /\ prm_last.result.ok

Prompt1 == prm_last.result.prompt

Budget1 == prm_last.input.user_preferences.budget

Span1 ==
    DayNumber(prm_last.input.travel_input.return_date)
      - DayNumber(prm_last.input.travel_input.start_date) + 1

Abs(x) == IF x < 0 THEN 0 - x ELSE x

\* cents is an integer nearest to num / den
Nearest(cents, num, den) == 2 * Abs(cents * den - num) <= Abs(den)

HintSum(allocation) ==
    allocation.activities + allocation.meals + allocation.transport + allocation.contingency

\* The parts of C11 about the single amounts: the length is the difference
\* of the dates plus one, the per-day budget is the budget divided by the
\* length, the hints are 40%, 30%, 20% and 10% of it, each rendered to the
\* nearest cent; 2025-02-01 to 2025-02-05 with 2000 gives 400.00 and
\* 160.00 / 120.00 / 80.00 / 40.00.
BudgetSplit ==
    /\ Prompt1.days = Span1
    /\ Nearest(Prompt1.daily_budget, 100 * Budget1, Span1)
    /\ Nearest(Prompt1.allocation.activities, 40 * Budget1, Span1)
    /\ Nearest(Prompt1.allocation.meals, 30 * Budget1, Span1)
    /\ Nearest(Prompt1.allocation.transport, 20 * Budget1, Span1)
    /\ Nearest(Prompt1.allocation.contingency, 10 * Budget1, Span1)
    /\ ( /\ prm_last.input.travel_input.start_date = Date1
         /\ prm_last.input.travel_input.return_date = Date5
         /\ Budget1 = 2000 )
       => /\ Prompt1.daily_budget = 40000
          /\ Prompt1.allocation = [activities |-> 16000, meals |-> 12000,
                                   transport |-> 8000, contingency |-> 4000]

\* C11 as stated: the length, the per-day budget and the hints are as above,
\* and the four hints of the prompt always sum to its per-day budget.
C11_HintsSumToDailyBudget ==
    Composed1 => BudgetSplit /\ HintSum(Prompt1.allocation) = Prompt1.daily_budget

\* C11, amended: the length, the per-day budget and the hints are as above;
\* each amount is rounded to the cent on its own, so the sum of the four
\* hints is within two cents of the per-day budget of the prompt.
C11_HintsRoundedSeparately ==
    Composed1 =>
        BudgetSplit /\ Abs(HintSum(Prompt1.allocation) - Prompt1.daily_budget) <= 2

C11_Witness ==
    /\ Composed1
    /\ prm_last.input.travel_input.return_date = Date5
    /\ Budget1 = 2000
    /\ Prompt1.days = 5
    /\ Prompt1.daily_budget = 40000
    /\ Prompt1.allocation.activities = 16000

\* C12 as stated: every travel input that reaches prompt composition has its
\* return date on or after its start date, so the trip length computed there
\* is at least one day.
C12_ReturnNotBeforeStart ==
    prm_last.called =>
        /\ DayNumber(prm_last.input.travel_input.return_date)
             >= DayNumber(prm_last.input.travel_input.start_date)
        /\ TripDays(prm_last.input.travel_input) >= 1

\* The candidate events of the call with their scores.
Candidates1 ==
    LET input == prm_last.input
        events == input.weather_data.local_events
    IN  [i \in 1..Len(events) |->
            EventInfo(events[i],
                      CalculateEventRelevance(events[i], input.user_preferences.activities,
                                              input.weather_data.weather_forecast).score)]

\* The number of positions of the list that hold the record.
CountIn(list, positions, record) == Cardinality({i \in positions : list[i] = record})

\* C17: the events block of the prompt holds at most 5 events; they are the 5
\* candidates of highest score (all the candidates when there are fewer than
\* 5): each listed event is a candidate, listed no more often than it is a
\* candidate, and a candidate that scores higher than a listed event is
\* listed as often as it is a candidate; they are listed by non-increasing score.
C17_TopFiveByRelevance ==
    Composed1 =>
        LET out == Prompt1.events_info
            cand == Candidates1
            n == Len(cand)
        IN  /\ Len(out) <= 5
            /\ Len(out) = IF n < 5 THEN n ELSE 5
            /\ \A p \in 1..Len(out) : \A q \in 1..Len(out) :
                   p < q => out[p].relevance >= out[q].relevance
            /\ \A p \in 1..Len(out) : \E i \in 1..n : cand[i] = out[p]
            /\ \A i \in 1..n :
                   /\ CountIn(out, 1..Len(out), cand[i])
                        <= CountIn(cand, 1..n, cand[i])
                   /\ (\E p \in 1..Len(out) : out[p].relevance < cand[i].relevance)
                        => CountIn(out, 1..Len(out), cand[i])
                             = CountIn(cand, 1..n, cand[i])

C17_Witness ==
    /\ Composed1
    /\ Len(Candidates1) = 6
    /\ Len(Prompt1.events_info) = 5
    /\ Candidates1[1].relevance < Candidates1[6].relevance
    /\ Prompt1.events_info[1].relevance > Prompt1.events_info[5].relevance
    /\ \A p \in 1..5 : Prompt1.events_info[p].relevance > Candidates1[1].relevance

\* C10 as stated: two calls of _create_itinerary_prompt with equal arguments
\* return the same prompt, the order of the weather condition labels and of
\* the weather-based suggestions included.
C10_EqualArgumentsEqualPrompts ==
    (prm_prev.called /\ prm_last.called /\ prm_prev.input = prm_last.input) =>
        prm_prev.result = prm_last.result

(***************************************************************************)
(* Claims about the Relevance Scorer.                                      *)
(***************************************************************************)
\* a is a substring of b when letter case is ignored, stated on the characters.
SameLetter(c, d) == LowerChar(c) = LowerChar(d)

CaseInsensitiveSubstring(a, b) ==
    \E i \in 0..(Len(b) - Len(a)) : \A j \in 1..Len(a) : SameLetter(a[j], b[i + j])

MatchCount(event, user_activities) ==
    Cardinality({i \in 1..Len(user_activities) :
                    CaseInsensitiveSubstring(user_activities[i], event.category)})

Bijections(n) == {p \in [1..n -> 1..n] : \A i, j \in 1..n : p[i] = p[j] => i = j}

Permuted(s, p) == [i \in 1..Len(s) |-> s[p[i]]]

HasWeatherOfDate(event, weather_forecast) ==
    \E i \in 1..Len(weather_forecast) : weather_forecast[i].date = event.date

\* The forecast day the scorer consults: the first one of the event's date.
IsMatchingDay(event, weather_forecast, i) ==
    /\ weather_forecast[i].date = event.date
    /\ \A j \in 1..(i - 1) : weather_forecast[j].date # event.date

\* C7: the score starts at 1.0 and rises by exactly 1.0 for each entry of the
\* interest list that is a case-insensitive substring of the event's category,
\* and every ordering of the interest list gives the same score.
C7_OnePointPerMatch ==
    rel_pc = "scored" =>
        /\ rel_result.score
             = CalculateEventRelevance(rel_event, <<>>, rel_forecast).score
               + MatchBonus * MatchCount(rel_event, rel_interests)
        /\ ~HasWeatherOfDate(rel_event, rel_forecast) =>
               rel_result.score = BaseScore + MatchBonus * MatchCount(rel_event, rel_interests)
        /\ \A p \in Bijections(Len(rel_interests)) :
               CalculateEventRelevance(rel_event, Permuted(rel_interests, p), rel_forecast)
                 = rel_result

C7_Witness ==
    /\ rel_pc = "scored"
    /\ Len(rel_interests) = 2
    /\ rel_interests[1] # rel_interests[2]
    /\ rel_interests[2] = <<"M", "A", "R">>
    /\ MatchCount(rel_event, rel_interests) = 2
    /\ rel_result.score = BaseScore + 2 * MatchBonus

\* C8: an event whose description contains "outdoor", on a matching day whose
\* condition contains "rain" and whose precipitation is above 50, scores
\* 1.0 + matches - 1.0: both penalties of 0.5 are applied.
C8_BothPenalties ==
    \A i \in 1..Len(rel_forecast) :
        ( /\ rel_pc # "input"
          /\ CaseInsensitiveSubstring(Outdoor, rel_event.description)
          /\ IsMatchingDay(rel_event, rel_forecast, i)
          /\ CaseInsensitiveSubstring(Rain, rel_forecast[i].condition)
          /\ FloatOfStr(rel_forecast[i].precipitation_chance).ok
          /\ FloatOfStr(rel_forecast[i].precipitation_chance).n > PrecipitationLimit )
        => /\ rel_pc = "scored"
           /\ rel_result.score
                = BaseScore + MatchBonus * MatchCount(rel_event, rel_interests)
                  - 2 * WeatherPenalty

C8_Witness ==
    /\ rel_pc = "scored"
    /\ CaseInsensitiveSubstring(Outdoor, rel_event.description)
    /\ Len(rel_forecast) = 2
    /\ IsMatchingDay(rel_event, rel_forecast, 2)
    /\ CaseInsensitiveSubstring(Rain, rel_forecast[2].condition)
    /\ rel_forecast[2].precipitation_chance = <<"5", "1">>
    /\ MatchCount(rel_event, rel_interests) = 1
    /\ rel_result.score = BaseScore

\* C9 as stated: the score has no floor; some event, interest list and
\* forecast of the scorer's inputs give a negative score.
C9_MayGoNegative ==
    rel_pc = "scored" =>
    \E e \in RelEvents :
        \E a \in SeqsUpTo(RelInterests, MaxInterests) :
            \E f \in SeqsUpTo(RelWeatherDays, MaxForecast) :
                /\ CalculateEventRelevance(e, a, f).ok
                /\ CalculateEventRelevance(e, a, f).score < 0

\* C9, amended: the score is never negative; its least value is 0.0, taken
\* when no interest matches and both weather penalties apply, and it grows by
\* 1.0 with every matching interest.
C9_NeverNegative ==
    rel_pc = "scored" =>
        /\ rel_result.score >= BaseScore - 2 * WeatherPenalty
        /\ rel_result.score >= 0
        /\ rel_result.score <= BaseScore + MatchBonus * Len(rel_interests)

C9_Witness ==
    /\ rel_pc = "scored"
    /\ rel_result.score = 0
    /\ Len(rel_forecast) = 2
    /\ rel_forecast[1].date = rel_event.date
    /\ rel_forecast[2].date = rel_event.date
    /\ CaseInsensitiveSubstring(Rain, rel_forecast[2].condition)
    /\ rel_forecast[2].precipitation_chance = <<"5", "1">>

\* C23: the scorer applies no weather penalty, the score being 1.0 plus the
\* number of matching interests, when no forecast day has the event's date,
\* and also when the description of the event does not contain "outdoor";
\* when several forecast days have the event's date, only the first of them
\* is consulted: the outcome is that of a forecast holding that day alone.
C23_NoPenaltyCases ==
    rel_pc # "input" =>
        /\ ( \/ ~HasWeatherOfDate(rel_event, rel_forecast)
             \/ ~CaseInsensitiveSubstring(Outdoor, rel_event.description) )
           => /\ rel_pc = "scored"
              /\ rel_result.score
                   = BaseScore + MatchBonus * MatchCount(rel_event, rel_interests)
        /\ \A i \in 1..Len(rel_forecast) :
               IsMatchingDay(rel_event, rel_forecast, i)
                 => rel_result
                      = CalculateEventRelevance(rel_event, rel_interests, <<rel_forecast[i]>>)

\* Two days of the event's date, the first one dry, the second one rainy: an
\* outdoor event keeps its score.
C23_Witness ==
    /\ rel_pc = "scored"
    /\ CaseInsensitiveSubstring(Outdoor, rel_event.description)
    /\ Len(rel_forecast) = 2
    /\ rel_forecast[1].date = rel_event.date
    /\ rel_forecast[2].date = rel_event.date
    /\ ~CaseInsensitiveSubstring(Rain, rel_forecast[1].condition)
    /\ rel_forecast[1].precipitation_chance = <<"5", "0">>
    /\ CaseInsensitiveSubstring(Rain, rel_forecast[2].condition)
    /\ rel_forecast[2].precipitation_chance = <<"5", "1">>
    /\ rel_result.score = BaseScore + MatchBonus * MatchCount(rel_event, rel_interests)

(***************************************************************************)
(* Claims about the Events Store.                                          *)
(***************************************************************************)
InCriticalSection(r) == ev_req[r].pc \in {"locked", "found", "leave"}

IdsOf(db) == { db[i].id : i \in 1 .. Len(db) }

\* The list with the event of the given id replaced and nothing else touched.
ReplacedOnly(old, new, event_id, event) ==
    /\ Len(new) = Len(old)
    /\ \A i \in 1 .. Len(old) :
           IF old[i].id = event_id THEN new[i] = Event(event_id, event)
           ELSE new[i] = old[i]

\* The list with the event of the given id removed and nothing else touched.
RemovedOnly(old, new, event_id) ==
    /\ Len(new) = Len(old) - 1
    /\ new = SelectSeq(old, LAMBDA e : e.id # event_id)

StoreStep ==
    /\ \A r \in Requests :
           /\ InCriticalSection(r) => ev_lock = r
           /\ ev_req[r].pc = "found" =>
                  /\ ev_req[r].idx \in 1 .. Len(ev_db)
                  /\ ev_db[ev_req[r].idx].id = ev_req[r].id
           /\ (ev_req[r].status # 404 /\ ev_req'[r].status = 404) =>
                  /\ ev_db' = ev_db
                  /\ ev_req[r].id \notin IdsOf(ev_db)
                  /\ InCriticalSection(r)
           /\ ev_req'[r].copy # ev_req[r].copy =>
                  /\ ev_lock = r
                  /\ ev_req'[r].copy = ev_db
           /\ (ev_req[r].op = "list" /\ ev_req'[r].status = 200) =>
                  ev_req'[r].body =
                      FilterEvents(ev_req[r].copy, ev_req[r].categories)
    /\ ev_db' # ev_db =>
           \E r \in Requests :
               /\ ev_lock = r
               /\ ev_req[r].op \in {"create", "update", "delete"}
               /\ ev_req[r].op = "create" =>
                      /\ ev_db' = Append(ev_db, Event(ev_req[r].id,
                                                      ev_req[r].event))
                      /\ ev_req[r].id \notin IdsOf(ev_db)
               /\ ev_req[r].op = "update" =>
                      ReplacedOnly(ev_db, ev_db', ev_req[r].id,
                                   ev_req[r].event)
               /\ ev_req[r].op = "delete" =>
                      RemovedOnly(ev_db, ev_db', ev_req[r].id)

\* C27: under every interleaving of concurrent create, update, delete and
\* list calls, the lookup and the replace or remove of a call happen inside
\* one critical section of events_lock: an update replaces only the event
\* with the requested id, a delete removes only that event, a create only
\* appends, a 404 leaves the list unchanged, and a list call filters the
\* copy it took under the lock.
C27_CriticalSections == [][StoreStep]_vars

\* An update of one event and a delete of the other both went through.
C27_Witness ==
    \E r \in Requests : \E q \in Requests :
        /\ ev_req[r].op = "update" /\ ev_req[r].id = "a2"
        /\ ev_req[r].status = 200
        /\ ev_req[q].op = "delete" /\ ev_req[q].id = "a1"
        /\ ev_req[q].status = 204
        /\ ev_db = <<Event("a2", ev_req[r].event)>>

(***************************************************************************)
(* Claims about the /itinerary handler.                                    *)
(***************************************************************************)
GenerationFailed == gen_pc = "done" /\ gen_outcome.kind = "raised"

\* The exception generate_itinerary ends with stands for the given one: the
\* same exception when that is a ValueError, else a ValueError made of its
\* message.
StandsFor(raised, e) ==
    IF e.kind \in ValueErrors THEN raised = e
    ELSE /\ raised.kind = "ValueError"
         /\ raised.message = e.message
         /\ raised.wraps = e.kind

\* The exception that ended the generation, before the except clauses.
OriginalFailure ==
    IF ~gen_weather.present \/ gen_weather.forecast = <<>>
    THEN Exc("ValueError", "Weather data is required for itinerary generation")
    ELSE IF TripDays(gen_trip) = 0
    THEN Exc("ZeroDivisionError", "division by zero")
    ELSE IF gen_calls = Len(gen_failures)
    THEN gen_failures[Len(gen_failures)]
    ELSE IF gen_response.kind \in {"none", "empty"}
    THEN Exc("ValueError", "Failed to generate itinerary content")
    ELSE IF gen_response.kind = "malformed"
    THEN Exc("JSONDecodeError", "Expecting value")
    ELSE LET result == AssembleItinerary(gen_response.data,
                                         gen_weather.forecast)
         IN  IF result.error # NoError THEN ExcOf(result.error)
             ELSE Exc("ValueError", "Generated itinerary is invalid or empty")

\* C28: every failure of generate_itinerary leaves it as a ValueError, the
\* original one when it is a ValueError (validation, repair, empty response)
\* and a wrapper of the original message otherwise; the handler answers
\* every failure of the generation stage with 422 VALIDATION_ERROR and never
\* with GENERATION_ERROR.
C28_FailuresAreValueErrors ==
    /\ rt_response.type # "GENERATION_ERROR"
    /\ GenerationFailed =>
           /\ gen_outcome.exc.kind \in ValueErrors
           /\ StandsFor(gen_outcome.exc, OriginalFailure)
           /\ rt_pc = "done" =>
                  rt_response = Reply(422, "VALIDATION_ERROR",
                                      gen_outcome.exc, NoItinerary)

\* The generation call failed with a transient error of the provider and
\* the handler has answered.
C28_Witness ==
    /\ GenerationFailed
    /\ rt_pc = "done"
    /\ gen_outcome.exc.wraps = "ServiceUnavailable"
    /\ rt_response.status = 422

Stages == <<"weather", "transport", "generation">>

GenerationUntouched == gen_pc = "idle" /\ gen_calls = 0

\* C29: the handler runs weather fetch, transport fetch and generation in
\* that order; an empty forecast ends the request with 503 WEATHER_ERROR
\* and an exception of the transport agent with 500 UNEXPECTED_ERROR, both
\* before generation is attempted; an empty list of options does not end
\* it; the itinerary returned has the empty transport_options of the
\* generation unless the transport response has an option, and they are
\* filled only after generation succeeded.
C29_StagesInOrder ==
    /\ rt_stages = SubSeq(Stages, 1, Len(rt_stages))
    /\ (rt_stages # <<>> /\ rt_forecast = <<>>) =>
           /\ rt_pc = "done"
           /\ rt_response = Reply(503, "WEATHER_ERROR", NoExc, NoItinerary)
           /\ rt_stages = <<"weather">>
           /\ GenerationUntouched
    /\ rt_transport.raised =>
           /\ rt_pc = "done"
           /\ rt_response.status = 500
           /\ rt_response.type = "UNEXPECTED_ERROR"
           /\ rt_stages = <<"weather", "transport">>
           /\ GenerationUntouched
    /\ (Len(rt_stages) >= 2 /\ ~rt_transport.raised) =>
           /\ rt_response.status \notin {500, 503}
           /\ rt_pc = "done" => rt_stages = Stages
    /\ gen_pc # "idle" => rt_stages = Stages
    /\ gen_outcome.kind = "returned" =>
           gen_outcome.itinerary.transport_options = <<>>
    /\ rt_response.status = 200 =>
           /\ gen_pc = "done"
           /\ gen_outcome.kind = "returned"
           /\ rt_response.itinerary =
                  [gen_outcome.itinerary EXCEPT !.transport_options =
                       OptionDicts(rt_transport.options)]
           /\ rt_response.itinerary.transport_options = <<>>
                  <=> rt_transport.options = <<>>
    /\ rt_response.status # 200 => rt_response.itinerary = NoItinerary

\* A request answered with an itinerary that carries transport options.
C29_Witness ==
    /\ rt_pc = "done"
    /\ rt_response.status = 200
    /\ Len(rt_response.itinerary.transport_options) = 2

(***************************************************************************)
(* Claims about the Weather Agent.                                         *)
(***************************************************************************)
CallSucceeded == wx_response # NoHttpResponse

AllAttemptsFailed == Len(wx_failures) = 3

\* The response of a call that returned gives no forecast: an error status,
\* a body that is not JSON, or a day that cannot be read.
OtherError ==
    /\ CallSucceeded
    /\ \/ wx_response.status >= 400
       \/ ~wx_response.json
       \/ \E i \in 1 .. Len(wx_response.days) :
              wx_response.days[i].kind = "mistyped"

\* C30: the forecast call is attempted at most 3 times and not again after
\* an attempt that returned; the waits are 1 second after the first failed
\* attempt and 2 seconds after the second, none after the third;
\* get_weather_and_events always ends, within a bounded number of steps,
\* with a WeatherResponse and never with an exception, and the forecast of
\* the response is empty after three failed attempts or another error.
C30_WeatherRetries ==
    /\ wx_calls <= 3
    /\ wx_calls = Len(wx_failures) + (IF CallSucceeded THEN 1 ELSE 0)
    /\ CallSucceeded => wx_pc \in {"received", "events", "done"}
    /\ wx_waits = SubSeq(<<1, 2>>, 1, IF Len(wx_failures) < 2
                                      THEN Len(wx_failures) ELSE 2)
    /\ wx_steps <= 3 + 3
    /\ wx_pc # "done" => ENABLED WxNext
    /\ wx_result.kind = IF wx_pc = "done" THEN "returned" ELSE ""
    /\ (wx_pc = "done" /\ (AllAttemptsFailed \/ OtherError)) =>
           wx_result.weather_forecast = <<>>

\* Three attempts failed, and the call returned the events without forecast.
C30_Witness ==
    /\ wx_pc = "done"
    /\ AllAttemptsFailed
    /\ wx_waits = <<1, 2>>
    /\ wx_result.weather_forecast = <<>>
    /\ wx_result.local_events # <<>>

====
